---- MODULE Spec2Model ----
(***************************************************************************)
(* Model of the pyNEUNET detector object Linear3HePSD (detectors.py): the   *)
(* acquisition run read() with stage(), and unstage(), sanity_check() and   *)
(* the setters; the frame decoders of translaters.py, the register client   *)
(* of communications.py, and the older reader detector_reader of            *)
(* tcp_reader.py and 3he_detector_reader.py.                                *)
(*                                                                          *)
(* Conventions.                                                             *)
(*  - A byte string is a sequence of integers 0..255; Python index k is     *)
(*    TLA+ index k+1.                                                       *)
(*  - Instrument times are kept in ticks of 1/256 s (seconds*256 + the      *)
(*    sub-second byte).  The code holds them as doubles s + b/256; every    *)
(*    such value and every difference of two of them is exact in a double,  *)
(*    so the tick arithmetic is the code's arithmetic.                      *)
(*  - A position pl/(pl+pr) is the pair <<pl, pl+pr>>; None is <<>>.  The   *)
(*    code holds it as the double nearest to pl/(pl+pr); BinIndex computes  *)
(*    int(position*(bins-1)) as the doubles do (the first bin count for     *)
(*    which that is not the exact floor is 23: 15/22*22 gives 14).          *)
(*  - A clock value is the triple <<hi, lo, f>>: hi*2**16 + lo whole seconds *)
(*    since 2008 and f/FRAC of a second.  The 32-bit second count is        *)
(*    carried as two 16-bit halves because the model checker's integers     *)
(*    are 32 bits wide; int(s).to_bytes(4,'big') is the two halves, each    *)
(*    written as two bytes.                                                 *)
(*  - stage() calls register_readwrite(ip, port, X, data=d) with the        *)
(*    register address X as third positional argument.  The function of     *)
(*    communications.py takes (IP, port, ID, length, address, data), so X   *)
(*    becomes the transaction id; the copy of the function in               *)
(*    tests/pulse_left_right_testing.py takes (ip_address, port, address,   *)
(*    data_id, length, data), the order stage() is written for.  The        *)
(*    variable binding says which of the two a run is linked with.          *)
(***************************************************************************)
EXTENDS Integers, Sequences, FiniteSets

VARIABLES
    pc,               \* position of the run in read()
    psd_nums,         \* self.__psd_nums
    exposure_time,    \* self.__exposure_time (seconds)
    bins,             \* self.__bins
    staged,           \* self.__staged
    udp_sent,         \* register addresses of the datagrams the current call has sent
    sock,             \* the TCP socket of the current call
    peer,             \* the device's end of the TCP connection
    recvd,            \* every byte sock.recv has returned so far, in order
    frames_read,      \* number of collect_8bytes calls that were handed data
    bytes_data,       \* self.__bytes_data
    start_time,       \* self.__start_time (ticks)
    current_time,     \* current_time (ticks)
    start_timestamp,  \* start_timestamp (ticks since 2008), Unbound before
    counts,           \* self.__counts
    histograms,       \* self.__histograms
    psd_number,       \* local of _count_neutron
    position,         \* local of _count_neutron
    res,              \* local of _count_neutron
    elapsed_time,     \* elapsed_time (ticks), Unbound before the loop ends
    error,            \* the exception that ended the run, "none" otherwise
    binding,          \* the register_readwrite that stage() is linked with
    results,          \* what the read() calls so far have returned, in order
    retired,          \* the arrays self.__histograms referred to in earlier calls
    alloc,            \* which call of read() made the arrays of self.__histograms
    feed,             \* the bytes the device is going to send, when that is fixed
    verbose,          \* the verbose argument of the current call of read()
    calls,            \* calls of unstage, sanity_check and the setters so far
    pings_left,       \* passes of the loop of sanity_check still to run
    \* tcp_reader.py and 3he_detector_reader.py: detector_reader.start
    revision,         \* which of the two files the detector_reader is taken from
    dr_pc,            \* position of the run in start()
    dr_sock,          \* self.sock: unconnected, connected or closed
    dr_read,          \* number of bytes of feed its socket has delivered
    dr_bytes_data,    \* self.bytes_data
    dr_start_time,    \* self.start_time
    dr_current_time,  \* self.current_time
    dr_count0,        \* self.count0
    dr_count7,        \* self.count7
    dr_arr0,          \* the counts of self.arr0
    dr_arr7,          \* the counts of self.arr7
    \* communications.py: register_readwrite and read_full_register
    caller,           \* the function of communications.py that is running
    reg_pc,           \* its position
    reg_args,         \* ID, length, address, data of the current call
    sendBytes,        \* sendBytes of the current register_readwrite call
    recvData,         \* recvData of the current register_readwrite call
    udp_log,          \* every sendto and recv on the UDP socket, in order
    reg_result,       \* what the last register_readwrite call returned
    reg_error,        \* the exception that left communications.py
    udpBytes,         \* the rows read_full_register has collected
    \* translaters.py: instrument_time on its own
    time_pc,          \* position of the round trip
    clock,            \* secondsSince2008 as read from the computer's clock
    time_bytes,       \* the five bytes instrument_time() returned
    time_seconds      \* instrument_time(time_bytes)

vars == <<pc, psd_nums, exposure_time, bins, staged, udp_sent, sock, peer, recvd,
          frames_read, bytes_data, start_time, current_time, start_timestamp,
          counts, histograms, psd_number, position, res, elapsed_time, error,
          binding, results, retired, alloc, feed, verbose, calls, pings_left,
          revision, dr_pc, dr_sock, dr_read,
          dr_bytes_data, dr_start_time, dr_current_time, dr_count0, dr_count7,
          dr_arr0, dr_arr7, caller, reg_pc, reg_args, sendBytes, recvData, udp_log, reg_result,
          reg_error, udpBytes, time_pc, clock, time_bytes, time_seconds>>

config == <<psd_nums, exposure_time, bins, binding>>
heap == <<retired, alloc>>
callvars == <<verbose, calls, pings_left>>
regvars == <<caller, reg_pc, reg_args, sendBytes, recvData, udp_log, reg_result, reg_error,
             udpBytes>>
timevars == <<time_pc, clock, time_bytes, time_seconds>>
runvars == <<pc, psd_nums, exposure_time, bins, staged, udp_sent, sock, peer, recvd,
             frames_read, bytes_data, start_time, current_time, start_timestamp,
             counts, histograms, psd_number, position, res, elapsed_time, error,
             binding, results, retired, alloc, feed, verbose, calls, pings_left>>
oldvars == <<revision, dr_pc, dr_sock, dr_read, dr_bytes_data, dr_start_time, dr_current_time,
             dr_count0, dr_count7, dr_arr0, dr_arr7>>

(***************************************************************************)
(* Program constants                                                        *)
(***************************************************************************)
NEUTRON_EVENT == 95      \* 0x5F
TRIGGER_ID == 91         \* 0x5B
INST_TIME == 108         \* 0x6C
TCP_START_BYTES == {NEUTRON_EVENT, TRIGGER_ID, INST_TIME}

UDP_TIME_MODE == 394     \* 0x18A
UDP_DEVICE_TIME == 400   \* 0x190
UDP_READ_WRITE == 390    \* 0x186
UDP_RESOLUTION == 436    \* 0x1B4
UDP_HANDSHAKE == 437     \* 0x1B5
StageWrites == <<UDP_TIME_MODE, UDP_DEVICE_TIME, UDP_READ_WRITE, UDP_RESOLUTION>>

EFFECT_LEN_MM == 150
ANODE_RES_X2 == 3        \* twice ANODE_RES = 1.5 kilo-ohms
PREAMP_RES == 1
TICKS == 256             \* 2**8 sub-second units per second
FRAC == 4 * TICKS        \* units of the fractional part of a clock value

modeRead == 192          \* 0xc0
modeWrite == 128         \* 0x80
DEFAULT_ADDRESS == 128   \* address=0x80
DEFAULT_LENGTH == 1      \* length=1
TIME_LENGTH == 5         \* length=5 of get_instrument_time

None == <<>>
Unbound == -1

(***************************************************************************)
(* Bounds of the model                                                      *)
(***************************************************************************)
MaxFrames == 4           \* frames one run may read
MaxRuns == 2             \* calls of read() on one object
MaxBins == 11            \* largest bin count of the counting specification
MaxCalls == 1            \* calls of unstage, sanity_check and the setters on one object

(***************************************************************************)
(* translaters.py                                                           *)
(***************************************************************************)
\* int.from_bytes(b, 'big')
RECURSIVE from_bytes(_)
from_bytes(b) ==
    IF b = <<>> THEN 0
    ELSE 256 * from_bytes(SubSeq(b, 1, Len(b) - 1)) + b[Len(b)]

\* Mutant of translate_neutron_data: the detector field is not reduced
\* modulo 2**3, so bit 7 of byte 4 leaks into the detector number.
translate_neutron_data_no_mask(bin_data) ==
    LET pl == 1024 * (bin_data[5] % 16) + 4 * bin_data[6] + bin_data[7] \div 64
        pr == 256 * (bin_data[7] % 64) + bin_data[8]
        pulse_height == pl + pr
    IN  [psd_number |-> bin_data[5] \div 16,
         position   |-> IF pulse_height = 0 THEN None ELSE <<pl, pulse_height>>]

\* Mutant of translate_neutron_data: a zero pulse height yields position 0
\* instead of None.
translate_neutron_data_zero(bin_data) ==
    LET pl == 1024 * (bin_data[5] % 16) + 4 * bin_data[6] + bin_data[7] \div 64
        pr == 256 * (bin_data[7] % 64) + bin_data[8]
        pulse_height == pl + pr
    IN  [psd_number |-> (bin_data[5] \div 16) % 8,
         position   |-> IF pulse_height = 0 THEN <<0, 1>> ELSE <<pl, pulse_height>>]

\* translate_neutron_data(bin_data, type=14): psd_number and position.
translate_neutron_data(bin_data) ==
    LET pl == 1024 * (bin_data[5] % 16) + 4 * bin_data[6] + bin_data[7] \div 64
        pr == 256 * (bin_data[7] % 64) + bin_data[8]
        pulse_height == pl + pr
    IN  [psd_number |-> (bin_data[5] \div 16) % 8,
         position   |-> IF pulse_height = 0 THEN None ELSE <<pl, pulse_height>>]

\* Mutant of translate_neutron_data_type12: byte 6 is split after its
\* sixth bit, as the 14-bit layout does.
translate_neutron_data_type12_split(bin_data) ==
    LET pl == 16 * bin_data[6] + bin_data[7] \div 64
        pr == 256 * (bin_data[7] % 64) + bin_data[8]
        pulse_height == pl + pr
    IN  [psd_number |-> bin_data[5] % 8,
         position   |-> IF pulse_height = 0 THEN None ELSE <<pl, pulse_height>>]

\* translate_neutron_data(bin_data, type=12): psd_number and position.
translate_neutron_data_type12(bin_data) ==
    LET pl == 16 * bin_data[6] + bin_data[7] \div 16
        pr == 256 * (bin_data[7] % 16) + bin_data[8]
        pulse_height == pl + pr
    IN  [psd_number |-> bin_data[5] % 8,
         position   |-> IF pulse_height = 0 THEN None ELSE <<pl, pulse_height>>]

\* The pulses of a frame, as the decoder extracts them.
pulse_left(bin_data) ==
    1024 * (bin_data[5] % 16) + 4 * bin_data[6] + bin_data[7] \div 64
pulse_right(bin_data) == 256 * (bin_data[7] % 64) + bin_data[8]

\* instrument_time(input) for a bytes input, mode 'seconds', in ticks:
\* int.from_bytes(input[:4]) + input[4]/2**8.  input[4] raises IndexError when
\* fewer than five bytes were passed; the value IndexError stands for that.
IndexError == -2
translate_instrument_time(input) ==
    IF Len(input) < 5 THEN IndexError
    ELSE from_bytes(SubSeq(input, 1, 4)) * TICKS + input[5]

\* n.to_bytes(k, 'big') for 0 <= n < 256**k.
RECURSIVE to_bytes(_, _)
to_bytes(n, k) == IF k = 0 THEN <<>> ELSE Append(to_bytes(n \div 256, k - 1), n % 256)

\* Mutant of instrument_time_bytes: the sub-second byte is rounded to the
\* nearest 1/256 s instead of truncated.
instrument_time_bytes_rounded(t) ==
    to_bytes(t[1], 2) \o to_bytes(t[2], 2)
        \o to_bytes(((t[3] * TICKS + FRAC \div 2) \div FRAC) % 256, 1)

\* instrument_time(None) for the clock value t: the whole seconds as four
\* big-endian bytes, then int(secondsSince2008 % 1 * 2**8) as one byte.
instrument_time_bytes(t) ==
    to_bytes(t[1], 2) \o to_bytes(t[2], 2) \o to_bytes((t[3] * TICKS) \div FRAC, 1)

\* instrument_time(input) for a bytes input, mode 'seconds', as a clock
\* value: int.from_bytes(input[:4], 'big') + input[4] / 2**8.
instrument_time_seconds(input) ==
    <<from_bytes(SubSeq(input, 1, 2)), from_bytes(SubSeq(input, 3, 4)),
      (input[5] * FRAC) \div TICKS>>

(***************************************************************************)
(* communications.py                                                        *)
(***************************************************************************)
\* The data argument of register_readwrite: kind records which isinstance
\* branch it takes, bytes is the list that is appended to the header (a
\* scalar x is wrapped into [x]).
NoData == [kind |-> "none", bytes |-> <<>>]
Scalar(x) == [kind |-> "scalar", bytes |-> <<x>>]
ByteList(b) == [kind |-> "sequence", bytes |-> b]

\* Mutant of register_request: the length byte of a write keeps the length
\* argument.
register_request_keep_length(ID, length, address, data) ==
    LET header == <<255, 0, ID, length>> \o to_bytes(address, 4)
        whole == header \o data.bytes
    IN  IF ID \notin 0..255 \/ length \notin 0..255
        THEN [error |-> "ValueError", sendBytes |-> <<>>]
        ELSE IF data.kind = "none"
        THEN [error |-> "none", sendBytes |-> [header EXCEPT ![2] = modeRead]]
        ELSE [error |-> "none", sendBytes |-> [whole EXCEPT ![2] = modeWrite]]

\* Lines 12-32: the datagram register_readwrite builds.  bytearray(...)
\* raises ValueError for an element outside 0..255, and so does the
\* assignment of len(data) to sendBytes[3].
register_request(ID, length, address, data) ==
    LET header == <<255, 0, ID, length>> \o to_bytes(address, 4)
        whole == header \o data.bytes
    IN  IF ID \notin 0..255 \/ length \notin 0..255
        THEN [error |-> "ValueError", sendBytes |-> <<>>]
        ELSE IF data.kind = "none"
        THEN [error |-> "none", sendBytes |-> [header EXCEPT ![2] = modeRead]]
        ELSE IF Len(data.bytes) > 255
        THEN [error |-> "ValueError", sendBytes |-> <<>>]
        ELSE [error |-> "none",
              sendBytes |-> [whole EXCEPT ![2] = modeWrite, ![4] = Len(data.bytes)]]

\* Mutant of bus_error: any status flag of the low nibble refuses the
\* response.
bus_error_nibble(recv) == (recv[2] % 16) # 0

\* Lines 37-38: flagByte = recvData[1] % 2**4; if flagByte % 2**1.
bus_error(recv) == ((recv[2] % 16) % 2) = 1

\* Mutant of register_response: a response whose transaction id differs
\* from the one sent is refused.
register_response_same_id(sent, recv) ==
    IF bus_error(recv) \/ recv[3] # sent[3]
    THEN [error |-> "ConnectionRefusedError", args |-> <<sent>>,
          filename |-> SubSeq(recv, 1, 8), result |-> None]
    ELSE [error |-> "none", args |-> <<>>, filename |-> None, result |-> recv]

\* Lines 37-48: what register_readwrite does with the response recv to the
\* request sent: the exception it raises, or the value it returns.
\* ConnectionRefusedError is an OSError; constructed with the four arguments
\* (message, Send, Header, Data) it keeps (message, Send) as args and Header
\* as filename, and drops the fourth, Data.  args holds the byte strings of
\* e.args after the message, filename the bytes shown in e.filename.
register_response(sent, recv) ==
    IF bus_error(recv)
    THEN [error |-> "ConnectionRefusedError", args |-> <<sent>>,
          filename |-> SubSeq(recv, 1, 8), result |-> None]
    ELSE [error |-> "none", args |-> <<>>, filename |-> None, result |-> recv]

\* Mutant of FullRegister: the rows of 0x188 and 0x18b change places.
FullRegister_swapped ==
    <<<<384, 8>>, <<395, 5>>, <<392, 3>>, <<400, 7>>, <<408, 8>>, <<432, 6>>>>

\* Line 59: the (address, length) pairs read_full_register reads.
FullRegister ==
    <<<<384, 8>>, <<392, 3>>, <<395, 5>>, <<400, 7>>, <<408, 8>>, <<432, 6>>>>

\* to_physical_position(decimal_pos) for decimal_pos = n/d, in mm, as the
\* unreduced pair <<numerator, denominator>> of
\* (n/d - 0.5) * EFFECT_LEN_MM * (ANODE_RES + 2*PREAMP_RES) / ANODE_RES.
to_physical_position(n, d) ==
    <<(2 * n - d) * EFFECT_LEN_MM * (ANODE_RES_X2 + 4 * PREAMP_RES),
      2 * d * ANODE_RES_X2>>

(***************************************************************************)
(* detectors.py: helpers of Linear3HePSD                                    *)
(***************************************************************************)
\* np.linspace(0, 1, bins)[i] as the pair <<numerator, denominator>>.
linspace(i, nbins) == IF nbins = 1 THEN <<0, 1>> ELSE <<i, nbins - 1>>

\* blank_array: one row <<physical position, count>> per bin.
blank_array(nbins) ==
    [i \in 0..(nbins - 1) |->
        <<to_physical_position(linspace(i, nbins)[1], linspace(i, nbins)[2]), 0>>]

\* Mutant of BinIndex: position*bins without the clamp.
BinIndex_unclamped(pos, nbins) == (pos[1] * nbins) \div pos[2]

\* floor(log2(x)) for an integer x >= 1.
RECURSIVE Log2Floor(_)
Log2Floor(x) == IF x < 2 THEN 0 ELSE 1 + Log2Floor(x \div 2)

RECURSIVE Pow2(_)
Pow2(k) == IF k = 0 THEN 1 ELSE 2 * Pow2(k - 1)

\* The binary exponent of the double pl/pulse_height for 0 < n <= d, negated:
\* the least e with n * 2**e >= d.
RECURSIVE QuotientShift(_, _)
QuotientShift(n, d) == IF n >= d THEN 0 ELSE 1 + QuotientShift(2 * n, d)

\* (r * 2**k) mod d.
RECURSIVE DoubleMod(_, _, _)
DoubleMod(r, d, k) == IF k = 0 THEN r ELSE DoubleMod((2 * r) % d, d, k - 1)

\* What the division pl/pulse_height (translate_neutron_data) loses: the
\* quotient n/d is rounded to a double of 53 significant bits, and
\* QuotientRemainder/d is the part of its last bit that n/d has beyond those
\* bits.  It is 0 when n/d is a double, below d/2 when the double lies below
\* n/d and above d/2 when it lies above.
QuotientRemainder(n, d) == DoubleMod(n % d, d, 52 + QuotientShift(n, d))

\* res = int(position * (self.__bins - 1)), with position the double
\* pl/pulse_height and the product rounded to a double again, for
\* 1 <= nbins < 2**15.  When pos[1]*(nbins-1)/pos[2] is not a whole number it
\* is at least 1/pos[2] away from one, far more than the doubles lose, and
\* int() yields its floor.  When it is the whole number x, the product of the
\* rounded quotient lies below x if the quotient was rounded down, and
\* int() yields x - 1 if that product is nearer to the double below x than to
\* x (the doubles below a power of two are twice as dense).
BinIndex(pos, nbins) ==
    LET n == pos[1]
        d == pos[2]
        m == nbins - 1
        x == (n * m) \div d
        R == QuotientRemainder(n, d)
        Ex == Log2Floor(x)
        lost == (IF x = Pow2(Ex) THEN 4 ELSE 2) * m * R
    IN  IF (n * m) % d # 0 \/ x = 0 \/ n = d THEN x
        ELSE IF R = 0 \/ 2 * R > d THEN x
        ELSE IF lost > d * Pow2(Ex + QuotientShift(n, d)) THEN x - 1
        ELSE x

\* Mutant of count_neutron: the total count is raised for every detector.
count_neutron_all(bin_data, cnts, hists, nbins) ==
    LET d == translate_neutron_data(bin_data)
        r == IF d.position = None THEN Unbound ELSE BinIndex(d.position, nbins)
    IN  IF Len(bin_data) < 8
        THEN [psd_number |-> Unbound, position |-> None, res |-> Unbound,
              counts |-> cnts, histograms |-> hists, error |-> "IndexError"]
        ELSE IF d.position = None
        THEN [psd_number |-> d.psd_number, position |-> None, res |-> Unbound,
              counts |-> cnts, histograms |-> hists, error |-> "none"]
        ELSE IF d.psd_number \notin DOMAIN cnts
        THEN [psd_number |-> d.psd_number, position |-> d.position, res |-> r,
              counts |-> cnts, histograms |-> hists, error |-> "KeyError"]
        ELSE [psd_number |-> d.psd_number, position |-> d.position, res |-> r,
              counts |-> [k \in DOMAIN cnts |-> cnts[k] + 1],
              histograms |-> [hists EXCEPT ![d.psd_number][r % nbins][2] = @ + 1],
              error |-> "none"]

\* _count_neutron: the values of the locals, of self.__counts and of
\* self.__histograms after the call, and the exception it raised.  The count
\* is incremented before the histogram row is indexed; a numpy row index
\* outside -bins..bins-1 raises IndexError, a negative one wraps.
\* translate_neutron_data indexes bin_data[4] to bin_data[7], so bytes_data
\* shorter than a frame raises IndexError before anything is assigned.
count_neutron(bin_data, cnts, hists, nbins) ==
    LET d == translate_neutron_data(bin_data)
        r == IF d.position = None THEN Unbound ELSE BinIndex(d.position, nbins)
    IN  IF Len(bin_data) < 8
        THEN [psd_number |-> Unbound, position |-> None, res |-> Unbound,
              counts |-> cnts, histograms |-> hists, error |-> "IndexError"]
        ELSE IF d.position = None
        THEN [psd_number |-> d.psd_number, position |-> None, res |-> Unbound,
              counts |-> cnts, histograms |-> hists, error |-> "none"]
        ELSE IF d.psd_number \notin DOMAIN cnts
        THEN [psd_number |-> d.psd_number, position |-> d.position, res |-> r,
              counts |-> cnts, histograms |-> hists, error |-> "KeyError"]
        ELSE IF r >= nbins \/ r < -nbins
        THEN [psd_number |-> d.psd_number, position |-> d.position, res |-> r,
              counts |-> [cnts EXCEPT ![d.psd_number] = @ + 1],
              histograms |-> hists, error |-> "IndexError"]
        ELSE [psd_number |-> d.psd_number, position |-> d.position, res |-> r,
              counts |-> [cnts EXCEPT ![d.psd_number] = @ + 1],
              histograms |-> [hists EXCEPT ![d.psd_number][r % nbins][2] = @ + 1],
              error |-> "none"]

\* collect_8bytes(offset=True): the number of bytes of s discarded before the
\* first start byte.
RECURSIVE discarded(_)
discarded(s) ==
    IF s = <<>> \/ s[1] \in TCP_START_BYTES THEN 0 ELSE 1 + discarded(Tail(s))

\* Mutant of exposure_running: the start time is not subtracted.
exposure_running_absolute(ct, st, exposure) == ct < exposure * TICKS

\* The test of the accumulation loop:
\* current_time - self.__start_time < self.__exposure_time
exposure_running(ct, st, exposure) == ct - st < exposure * TICKS

(***************************************************************************)
(* The byte stream of the device                                            *)
(***************************************************************************)
\* An InstrumentTime frame as read() decodes it: 4 bytes of seconds, one of
\* 1/256 s, two unused.
TimeFrame(sec, sub) ==
    <<INST_TIME, (sec \div 16777216) % 256, (sec \div 65536) % 256,
      (sec \div 256) % 256, sec % 256, sub, 0, 0>>

\* A NeutronEvent frame in 14-bit mode.
NeutronFrame(psd, pl, pr) ==
    <<NEUTRON_EVENT, 0, 0, 0, (psd * 16) + ((pl \div 1024) % 16), (pl \div 4) % 256,
      ((pl % 4) * 64) + ((pr \div 256) % 64), pr % 256>>

TriggerFrame == <<TRIGGER_ID, 1, 2, 3, 0, 0, 0, 0>>
\* Eight bytes that do not start with a start byte (a misaligned stream).
MisalignedFrame == <<0, INST_TIME, 0, 0, 3, 232, 0, 0>>

StreamFrames ==
    {TimeFrame(0, 0), TimeFrame(1000, 0), TimeFrame(1004, 255), TimeFrame(1005, 0),
     TimeFrame(1010, 0),
     NeutronFrame(0, 1, 1), NeutronFrame(7, 1, 0), NeutronFrame(0, 0, 0),
     NeutronFrame(3, 1, 1), TriggerFrame, MisalignedFrame}

Garbage == {<<>>, <<0, 17>>}
SyncInputs == {g \o f : g \in Garbage, f \in StreamFrames}

\* What the socket hands to one collect_8bytes call when the device closes
\* the connection during it: the bytes received before the close.  From then
\* on sock.recv(1) returns b'' without raising, so the call returns with
\* fewer than eight bytes.
TruncatedFrames ==
    {SubSeq(f, 1, n) : f \in {TimeFrame(1010, 0), NeutronFrame(0, 1, 1), TriggerFrame},
                       n \in {0, 3, 6}}
SyncTruncated == {g \o p : g \in Garbage, p \in TruncatedFrames}

\* The bytes one collect_8bytes call received before a sock.recv(1) of it
\* ran into the socket timeout.
TimedOutReads == {<<>>, SubSeq(TimeFrame(1010, 0), 1, 6)}

\* The deliveries possible for a call of collect_8bytes(offset=False) and of
\* collect_8bytes(offset=True).
Deliveries(up) == IF up THEN StreamFrames \cup TruncatedFrames ELSE {<<>>}
SyncDeliveries(up) == IF up THEN SyncInputs \cup SyncTruncated ELSE {<<>>}

ExposureTimes == {5, 10}
BinChoices == {1, 10}
PsdChoices == {{0, 7}}

\* The two register_readwrite functions of the repository (see Conventions).
Bindings == {"communications", "tests"}

\* Values of randint(0, 255), which excludes 255.
RandomIDs == {0, 254}

\* Clock values read by instrument_time(None): 0, a time in 2061
\* (1 700 000 000 s) and the last second of the 32-bit range, with fractions
\* on and off the 1/256 s grid.
ClockTimes ==
    {<<hi, lo, f>> : hi \in {0, 25939, 65535}, lo \in {0, 61696, 65535},
                     f \in {0, 1, 3, 4, 512, 514, 1023}}
StageClocks == {<<25939, 61696, 512>>, <<9000, 0, 3>>}

\* Responses of the device: an 8-byte header whose byte 1 carries the flags
\* and whose byte 2 carries a transaction id, then the register data.
Response(flags, id, data) == <<255, flags, id, Len(data), 0, 0, 0, 0>> \o data
\* The answers to a call of stage(): with or without the bus-error flag,
\* and with the five bytes of a device time or with no data.
StageResponses == {Response(fl, 0, d) : fl \in {128, 129}, d \in {<<>>, <<0, 0, 3, 232, 0>>}}

\* The pings argument of sanity_check.
PingChoices == {1, 2}

(***************************************************************************)
(* The parts of the state a specification does not exercise                 *)
(***************************************************************************)
RegParked ==
    /\ caller = "none"
    /\ reg_pc = "Idle"
    /\ reg_args = <<>>
    /\ sendBytes = <<>>
    /\ recvData = <<>>
    /\ udp_log = <<>>
    /\ reg_result = None
    /\ reg_error = [error |-> "none", args |-> <<>>, filename |-> None]
    /\ udpBytes = <<>>

TimeParked ==
    /\ time_pc = "Idle"
    /\ clock = <<0, 0, 0>>
    /\ time_bytes = <<>>
    /\ time_seconds = <<>>

OldParked ==
    /\ revision = "tcp_reader"
    /\ dr_pc = "Idle"
    /\ dr_sock = "unconnected"
    /\ dr_read = 0
    /\ dr_bytes_data = <<>>
    /\ dr_start_time = Unbound
    /\ dr_current_time = Unbound
    /\ dr_count0 = Unbound
    /\ dr_count7 = Unbound
    /\ dr_arr0 = <<>>
    /\ dr_arr7 = <<>>

RunParked ==
    /\ pc = "Idle"
    /\ psd_nums = {0, 7}
    /\ exposure_time = 10
    /\ bins = 10
    /\ staged = FALSE
    /\ udp_sent = <<>>
    /\ sock = "unopened"
    /\ peer = "up"
    /\ recvd = <<>>
    /\ frames_read = 0
    /\ bytes_data = <<>>
    /\ start_time = 0
    /\ current_time = 0
    /\ start_timestamp = Unbound
    /\ counts = <<>>
    /\ histograms = <<>>
    /\ psd_number = Unbound
    /\ position = None
    /\ res = Unbound
    /\ elapsed_time = Unbound
    /\ error = "none"
    /\ binding = "communications"
    /\ results = <<>>
    /\ retired = <<>>
    /\ alloc = 1
    /\ feed = <<>>
    /\ verbose = FALSE
    /\ calls = 0
    /\ pings_left = 0

(***************************************************************************)
(* Linear3HePSD.read                                                        *)
(***************************************************************************)
Init ==
    /\ pc = "Idle"
    /\ psd_nums \in PsdChoices
    /\ exposure_time \in ExposureTimes
    /\ bins \in BinChoices
    /\ staged = FALSE
    /\ udp_sent = <<>>
    /\ sock = "unopened"
    /\ peer = "up"
    /\ recvd = <<>>
    /\ frames_read = 0
    /\ bytes_data = <<>>
    /\ start_time = 0
    /\ current_time = 0
    /\ start_timestamp = Unbound
    /\ counts = <<>>
    /\ histograms = <<>>
    /\ psd_number = Unbound
    /\ position = None
    /\ res = Unbound
    /\ elapsed_time = Unbound
    /\ error = "none"
    /\ binding \in Bindings
    /\ results = <<>>
    /\ retired = <<>>
    /\ alloc = 1
    /\ feed = <<>>
    /\ verbose \in BOOLEAN
    /\ calls = 0
    /\ pings_left = 0
    /\ OldParked
    /\ RegParked
    /\ TimeParked

\* Mutant of Raise: the exception is caught and recorded, and the run goes
\* on where it was.
Raise_continue(e) ==
    /\ pc' = pc
    /\ error' = e
    /\ sock' = sock

\* The exception leaves the with-statement, which closes the socket.
Raise(e) ==
    /\ pc' = "Failed"
    /\ error' = e
    /\ sock' = "closed"

\* Lines 218-237: connect and set up the counters and histograms.
Connect ==
    /\ pc = "Idle"
    /\ sock' = "open"
    /\ counts' = [i \in psd_nums |-> 0]
    /\ histograms' = [i \in psd_nums |-> blank_array(bins)]
    /\ start_time' = 0
    /\ current_time' = 0
    /\ pc' = "Staging"
    /\ UNCHANGED <<config, callvars, heap, feed, oldvars, results, staged, udp_sent, peer, recvd, frames_read, bytes_data,
                   start_timestamp, psd_number, position, res, elapsed_time, error>>
    /\ UNCHANGED <<regvars, timevars>>

\* The data of the four writes of stage() (lines 87-111); now is the clock
\* value translate_instrument_time() reads for the second one.
StageData(now) ==
    <<Scalar(128), ByteList(instrument_time_bytes(now) \o <<0, 0>>),
      ByteList(<<0, 0>>), ByteList(<<138, 128>>)>>

\* register_readwrite(self.__ip, self.__udp_port, X, length=n, data=d) as
\* each of the two functions binds its arguments: X is ID for
\* communications.py (address keeps its default) and address for the copy in
\* the tests, which draws its id from randint.
stage_request(b, X, n, d, id) ==
    IF b = "communications"
    THEN register_request(X, n, DEFAULT_ADDRESS, d)
    ELSE register_request(id, n, X, d)

\* The register_readwrite calls of stage(verbose), in order (lines 87-111).
\* With verbose, get_instrument_time (lines 390-396) reads the device time
\* before and after the second write.
StageWrite(i, now) ==
    [address |-> StageWrites[i], length |-> DEFAULT_LENGTH, data |-> StageData(now)[i]]
TimeRead == [address |-> UDP_DEVICE_TIME, length |-> TIME_LENGTH, data |-> NoData]
\* The order of the calls: the writes by their number, 0 for a call of
\* get_instrument_time.
StageOrder(v) == IF v THEN <<1, 0, 2, 0, 3, 4>> ELSE <<1, 2, 3, 4>>
StageCalls(v, k, now) ==
    IF StageOrder(v)[k] = 0 THEN TimeRead ELSE StageWrite(StageOrder(v)[k], now)

\* One register_readwrite call c of a method of the object, answered with
\* recv: the exception that leaves the method, and the address of the
\* datagram when one was sent.  get_instrument_time decodes the data of the
\* response, recv[8:], and input[4] raises IndexError on fewer than five
\* bytes.
register_call(b, c, id, recv) ==
    LET req == stage_request(b, c.address, c.length, c.data, id)
        rsp == register_response(req.sendBytes, recv)
    IN  IF req.error # "none" THEN [error |-> req.error, sent |-> <<>>]
        ELSE [error |-> IF rsp.error # "none" THEN rsp.error
                        ELSE IF c.data = NoData
                                /\ translate_instrument_time(SubSeq(recv, 9, Len(recv)))
                                     = IndexError
                        THEN "IndexError"
                        ELSE "none",
              sent |-> <<from_bytes(SubSeq(req.sendBytes, 5, 8))>>]

\* Line 240, stage(verbose): one step per register_readwrite call, the
\* request and the single response to it.  The exception of a call leaves
\* stage() and read(); the last call that returns sets self.__staged.
Stage ==
    /\ pc = "Staging"
    /\ \E now \in StageClocks, id \in RandomIDs, recv \in StageResponses :
        \E o \in {register_call(binding, StageCalls(verbose, Len(udp_sent) + 1, now), id, recv)} :
            /\ udp_sent' = udp_sent \o o.sent
            /\ IF o.error # "none"
               THEN staged' = staged /\ Raise(o.error)
               ELSE IF Len(udp_sent') = Len(StageOrder(verbose))
               THEN staged' = TRUE /\ pc' = "Syncing" /\ UNCHANGED <<sock, error>>
               ELSE UNCHANGED <<staged, pc, sock, error>>
    /\ UNCHANGED <<config, callvars, heap, feed, oldvars, results, peer, recvd, frames_read, bytes_data, start_time,
                   current_time, start_timestamp, counts, histograms, psd_number,
                   position, res, elapsed_time>>
    /\ UNCHANGED <<regvars, timevars>>

\* Line 241, collect_8bytes(sock, offset=True): s is what the socket delivers
\* to this call.  Bytes are discarded up to the first start byte, which opens
\* the frame; for an instrument-time frame the one-byte recv_byte is passed
\* to translate_instrument_time.  When the device closes before a start byte
\* arrived, recv_byte is b'' and recv_byte[0] raises IndexError.
Sync ==
    /\ pc = "Syncing"
    /\ frames_read < MaxFrames
    /\ \E s \in SyncDeliveries(peer = "up") :
        LET k == discarded(s)
            recv_byte == IF k < Len(s) THEN <<s[k + 1]>> ELSE <<>>
            t == translate_instrument_time(recv_byte)
        IN  /\ recvd' = recvd \o s
            /\ peer' = IF Len(s) < k + 8 THEN "closed" ELSE peer
            /\ frames_read' = frames_read + 1
            /\ IF recv_byte = <<>>
               THEN Raise("IndexError") /\ UNCHANGED <<bytes_data, start_time>>
               ELSE /\ bytes_data' = SubSeq(s, k + 1, Len(s))
                    /\ IF recv_byte[1] = INST_TIME
                       THEN IF t = IndexError
                            THEN Raise("IndexError") /\ start_time' = start_time
                            ELSE start_time' = t /\ pc' = "AwaitingStart"
                                 /\ UNCHANGED <<sock, error>>
                       ELSE start_time' = start_time /\ pc' = "AwaitingStart"
                            /\ UNCHANGED <<sock, error>>
    /\ UNCHANGED <<config, callvars, heap, feed, oldvars, results, staged, udp_sent, current_time, start_timestamp,
                   counts, histograms, psd_number, position, res, elapsed_time>>
    /\ UNCHANGED <<regvars, timevars>>

\* A sock.recv(1) of the current collect_8bytes call raises socket.timeout
\* (settimeout(TIMEOUT), line 219) after p was received; the exception
\* leaves read().  collect_8bytes has assigned self.__bytes_data when a frame
\* was opened.
RecvTimeout ==
    /\ pc \in {"Syncing", "AwaitingStart", "Accumulating"}
    /\ peer = "up"
    /\ \E p \in TimedOutReads :
        /\ recvd' = recvd \o p
        /\ bytes_data' = IF pc = "Syncing" /\ p = <<>> THEN bytes_data ELSE p
    /\ Raise("timeout")
    /\ UNCHANGED <<config, callvars, heap, feed, oldvars, results, staged, udp_sent, peer, frames_read, start_time,
                   current_time, start_timestamp, counts, histograms, psd_number,
                   position, res, elapsed_time>>
    /\ UNCHANGED <<regvars, timevars>>

\* The run leaves the accumulation loop: lines 260-262 and the end of the
\* with-statement.
Finish(ct, st) ==
    /\ elapsed_time' = ct - st
    /\ sock' = "closed"
    /\ pc' = "Done"
    /\ error' = error

\* Lines 309-325, what read() returns: the arrays of self.__histograms
\* themselves (a names the call that made them), the start timestamp and
\* the elapsed time.
Returned(a, ts, el) == [arrays |-> a, start_timestamp |-> ts, elapsed_time |-> el]

\* Mutant of AwaitingStartFrame: neutron events are counted before the start
\* time is known, as detector_reader.start does.
AwaitingStartFrame_counting(f) ==
    LET c == count_neutron(f, counts, histograms, bins)
    IN  /\ bytes_data' = f
        /\ IF f # <<>> /\ f[1] = NEUTRON_EVENT /\ c.error = "none"
           THEN /\ counts' = c.counts
                /\ histograms' = c.histograms
           ELSE UNCHANGED <<counts, histograms>>
        /\ IF f = <<>> \/ (f[1] = INST_TIME /\ Len(f) < 6)
           THEN /\ Raise("IndexError")
                /\ UNCHANGED <<start_time, start_timestamp, elapsed_time>>
           ELSE /\ IF f[1] = INST_TIME
                   THEN /\ start_time' = translate_instrument_time(Tail(f))
                        /\ start_timestamp' = start_time'
                   ELSE UNCHANGED <<start_time, start_timestamp>>
                /\ IF start_time' = 0
                   THEN UNCHANGED <<pc, sock, error, elapsed_time>>
                   ELSE IF exposure_running(current_time, start_time', exposure_time)
                   THEN pc' = "Accumulating" /\ UNCHANGED <<sock, error, elapsed_time>>
                   ELSE Finish(current_time, start_time')
        /\ UNCHANGED <<current_time, psd_number, position, res>>

\* Lines 244-250, one pass of the loop "while not self.__start_time" on the
\* bytes f that collect_8bytes left in self.__bytes_data, followed by the
\* tests of both loops.  bytes_data[0] raises IndexError on empty bytes, and
\* translate_instrument_time(bytes_data[1:]) when fewer than six bytes came.
AwaitingStartFrame(f) ==
    /\ bytes_data' = f
    /\ IF f = <<>> \/ (f[1] = INST_TIME /\ Len(f) < 6)
       THEN /\ Raise("IndexError")
            /\ UNCHANGED <<start_time, start_timestamp, elapsed_time>>
       ELSE /\ IF f[1] = INST_TIME
               THEN /\ start_time' = translate_instrument_time(Tail(f))
                    /\ start_timestamp' = start_time'
               ELSE UNCHANGED <<start_time, start_timestamp>>
            /\ IF start_time' = 0
               THEN UNCHANGED <<pc, sock, error, elapsed_time>>
               ELSE IF exposure_running(current_time, start_time', exposure_time)
               THEN pc' = "Accumulating" /\ UNCHANGED <<sock, error, elapsed_time>>
               ELSE Finish(current_time, start_time')
    /\ UNCHANGED <<current_time, counts, histograms, psd_number, position, res>>

\* Mutant of AwaitingStart: the read of the loop resynchronizes, discarding
\* the bytes before the first start byte as collect_8bytes(offset=True) does.
AwaitingStart_resync ==
    /\ pc = "AwaitingStart"
    /\ frames_read < MaxFrames
    /\ \E s \in SyncDeliveries(peer = "up") :
        /\ recvd' = recvd \o s
        /\ peer' = IF Len(s) < discarded(s) + 8 THEN "closed" ELSE peer
        /\ frames_read' = frames_read + 1
        /\ AwaitingStartFrame(SubSeq(s, discarded(s) + 1, Len(s)))
    /\ results' = IF pc' = "Done"
                  THEN Append(results, Returned(alloc, start_timestamp', elapsed_time'))
                  ELSE results
    /\ UNCHANGED <<config, callvars, heap, feed, oldvars, staged, udp_sent, regvars, timevars>>

\* Line 245, collect_8bytes(sock): f is what the eight sock.recv(1) calls
\* return together, all eight bytes of the next frame or, when the device
\* closes the connection, what came before the close.
AwaitingStart ==
    /\ pc = "AwaitingStart"
    /\ frames_read < MaxFrames
    /\ \E f \in Deliveries(peer = "up") :
        /\ recvd' = recvd \o f
        /\ peer' = IF Len(f) < 8 THEN "closed" ELSE peer
        /\ frames_read' = frames_read + 1
        /\ AwaitingStartFrame(f)
    /\ results' = IF pc' = "Done"
                  THEN Append(results, Returned(alloc, start_timestamp', elapsed_time'))
                  ELSE results
    /\ UNCHANGED <<config, callvars, heap, feed, oldvars, staged, udp_sent, regvars, timevars>>

\* Mutant of AccumulatingFrame: the second test is a plain else, so every
\* frame that is not a neutron event is decoded as an instrument time.
AccumulatingFrame_else(f) ==
    /\ bytes_data' = f
    /\ IF f = <<>> \/ (f[1] # NEUTRON_EVENT /\ Len(f) < 6)
       THEN /\ Raise("IndexError")
            /\ UNCHANGED <<psd_number, position, res, counts, histograms,
                           current_time, elapsed_time>>
       ELSE IF f[1] = NEUTRON_EVENT
       THEN LET c == count_neutron(f, counts, histograms, bins)
            IN  /\ psd_number' = c.psd_number
                /\ position' = c.position
                /\ res' = c.res
                /\ counts' = c.counts
                /\ histograms' = c.histograms
                /\ current_time' = current_time
                /\ IF c.error # "none"
                   THEN Raise(c.error) /\ UNCHANGED elapsed_time
                   ELSE UNCHANGED <<pc, sock, error, elapsed_time>>
       ELSE /\ UNCHANGED <<psd_number, position, res, counts, histograms>>
            /\ current_time' = translate_instrument_time(Tail(f))
            /\ IF exposure_running(current_time', start_time, exposure_time)
               THEN UNCHANGED <<pc, sock, error, elapsed_time>>
               ELSE Finish(current_time', start_time)
    /\ UNCHANGED <<start_time, start_timestamp>>

\* Mutant of AccumulatingFrame: an instrument time that lies before
\* current_time is dropped.
AccumulatingFrame_monotone(f) ==
    /\ bytes_data' = f
    /\ IF f = <<>> \/ (f[1] = INST_TIME /\ Len(f) < 6)
       THEN /\ Raise("IndexError")
            /\ UNCHANGED <<psd_number, position, res, counts, histograms,
                           current_time, elapsed_time>>
       ELSE IF f[1] = NEUTRON_EVENT
       THEN LET c == count_neutron(f, counts, histograms, bins)
            IN  /\ psd_number' = c.psd_number
                /\ position' = c.position
                /\ res' = c.res
                /\ counts' = c.counts
                /\ histograms' = c.histograms
                /\ current_time' = current_time
                /\ IF c.error # "none"
                   THEN Raise(c.error) /\ UNCHANGED elapsed_time
                   ELSE UNCHANGED <<pc, sock, error, elapsed_time>>
       ELSE /\ UNCHANGED <<psd_number, position, res, counts, histograms>>
            /\ IF f[1] = INST_TIME /\ translate_instrument_time(Tail(f)) >= current_time
               THEN current_time' = translate_instrument_time(Tail(f))
               ELSE current_time' = current_time
            /\ IF exposure_running(current_time', start_time, exposure_time)
               THEN UNCHANGED <<pc, sock, error, elapsed_time>>
               ELSE Finish(current_time', start_time)
    /\ UNCHANGED <<start_time, start_timestamp>>

\* Lines 254-259, one pass of the accumulation loop on the frame f, followed
\* by the loop test.
AccumulatingFrame(f) ==
    /\ bytes_data' = f
    /\ IF f = <<>> \/ (f[1] = INST_TIME /\ Len(f) < 6)
       THEN /\ Raise("IndexError")
            /\ UNCHANGED <<psd_number, position, res, counts, histograms,
                           current_time, elapsed_time>>
       ELSE IF f[1] = NEUTRON_EVENT
       THEN LET c == count_neutron(f, counts, histograms, bins)
            IN  /\ psd_number' = c.psd_number
                /\ position' = c.position
                /\ res' = c.res
                /\ counts' = c.counts
                /\ histograms' = c.histograms
                /\ current_time' = current_time
                /\ IF c.error # "none"
                   THEN Raise(c.error) /\ UNCHANGED elapsed_time
                   ELSE UNCHANGED <<pc, sock, error, elapsed_time>>
       ELSE /\ UNCHANGED <<psd_number, position, res, counts, histograms>>
            /\ IF f[1] = INST_TIME
               THEN current_time' = translate_instrument_time(Tail(f))
               ELSE current_time' = current_time
            /\ IF exposure_running(current_time', start_time, exposure_time)
               THEN UNCHANGED <<pc, sock, error, elapsed_time>>
               ELSE Finish(current_time', start_time)
    /\ UNCHANGED <<start_time, start_timestamp>>

Accumulating ==
    /\ pc = "Accumulating"
    /\ frames_read < MaxFrames
    /\ \E f \in Deliveries(peer = "up") :
        /\ recvd' = recvd \o f
        /\ peer' = IF Len(f) < 8 THEN "closed" ELSE peer
        /\ frames_read' = frames_read + 1
        /\ AccumulatingFrame(f)
    /\ results' = IF pc' = "Done"
                  THEN Append(results, Returned(alloc, start_timestamp', elapsed_time'))
                  ELSE results
    /\ UNCHANGED <<config, callvars, heap, feed, oldvars, staged, udp_sent, regvars, timevars>>

\* The positions at which a call of a method of the object has ended.
Ended == {"Done", "Failed", "Unstaged", "UnstageFailed", "Checked", "CheckFailed"}

\* Mutant of ReadAgain: the arrays of the earlier call are kept and their
\* count columns are set to zero in place.
ReadAgain_inplace ==
    /\ pc \in Ended
    /\ alloc < MaxRuns
    /\ verbose' \in BOOLEAN
    /\ sock' = "open"
    /\ peer' = "up"
    /\ recvd' = <<>>
    /\ udp_sent' = <<>>
    /\ counts' = [i \in psd_nums |-> 0]
    /\ histograms' = [i \in psd_nums |-> blank_array(bins)]
    /\ UNCHANGED <<retired, alloc>>
    /\ start_time' = 0
    /\ current_time' = 0
    /\ start_timestamp' = Unbound
    /\ elapsed_time' = Unbound
    /\ error' = "none"
    /\ pc' = "Staging"
    /\ UNCHANGED <<config, calls, pings_left, results, feed, oldvars, staged, frames_read,
                   bytes_data, psd_number, position, res, regvars, timevars>>

\* read() is called on an object on which a call of read(), unstage() or
\* sanity_check() has returned or raised: lines 218-237 of the new call.  A new socket is connected, the
\* locals of the call are unbound again, self.__counts and
\* self.__histograms are bound to new dictionaries holding new copies of
\* blank_array, and the arrays of the earlier call stay as they were, still
\* referred to by what that call returned.  self.__staged and
\* self.__bytes_data keep their values.
ReadAgain ==
    /\ pc \in Ended
    /\ alloc < MaxRuns
    /\ verbose' \in BOOLEAN
    /\ sock' = "open"
    /\ peer' = "up"
    /\ recvd' = <<>>
    /\ udp_sent' = <<>>
    /\ counts' = [i \in psd_nums |-> 0]
    /\ histograms' = [i \in psd_nums |-> blank_array(bins)]
    /\ retired' = Append(retired, histograms)
    /\ alloc' = alloc + 1
    /\ start_time' = 0
    /\ current_time' = 0
    /\ start_timestamp' = Unbound
    /\ elapsed_time' = Unbound
    /\ error' = "none"
    /\ pc' = "Staging"
    /\ UNCHANGED <<config, calls, pings_left, results, feed, oldvars, staged, frames_read,
                   bytes_data, psd_number, position, res, regvars, timevars>>

\* No method of the object is running.  The calls other than read() are
\* followed while a call of read() can still come after them (alloc <
\* MaxRuns) and MaxCalls of them are followed on one object.
Callable ==
    /\ pc = "Idle" \/ pc \in Ended
    /\ alloc < MaxRuns
    /\ calls < MaxCalls

\* Lines 378-380, the setter of exposure_time: any value is stored.  The
\* calls that store the value the attribute has change nothing and are left
\* out.
SetExposureTime ==
    /\ Callable
    /\ calls' = calls + 1
    /\ \E seconds \in ExposureTimes \ {exposure_time} : exposure_time' = seconds
    /\ UNCHANGED <<pc, psd_nums, bins, binding, staged, udp_sent, sock, peer, recvd, frames_read,
                   bytes_data, start_time, current_time, start_timestamp, counts,
                   histograms, psd_number, position, res, elapsed_time, error, results,
                   heap, feed, verbose, pings_left, oldvars, regvars, timevars>>

\* Lines 386-388, the setter of bins: any value is stored; the arrays that
\* exist keep their size.
SetBins ==
    /\ Callable
    /\ calls' = calls + 1
    /\ \E num \in BinChoices \ {bins} : bins' = num
    /\ UNCHANGED <<pc, psd_nums, exposure_time, binding, staged, udp_sent, sock, peer, recvd,
                   frames_read, bytes_data, start_time, current_time, start_timestamp,
                   counts, histograms, psd_number, position, res, elapsed_time, error,
                   results, heap, feed, verbose, pings_left, oldvars, regvars, timevars>>

\* Lines 117-126, unstage(): one write of [0x00] to the handshake register;
\* self.__staged is cleared when the call returns, and the exception of the
\* call leaves unstage() with the flag as it was.
Unstage ==
    /\ Callable
    /\ calls' = calls + 1
    /\ \E id \in RandomIDs, recv \in StageResponses :
        \E o \in {register_call(binding,
                                [address |-> UDP_HANDSHAKE, length |-> DEFAULT_LENGTH,
                                 data |-> ByteList(<<0>>)], id, recv)} :
            /\ udp_sent' = o.sent
            /\ error' = o.error
            /\ staged' = IF o.error = "none" THEN FALSE ELSE staged
            /\ pc' = IF o.error = "none" THEN "Unstaged" ELSE "UnstageFailed"
    /\ UNCHANGED <<config, sock, peer, recvd, frames_read, bytes_data, start_time,
                   current_time, start_timestamp, counts, histograms, psd_number,
                   position, res, elapsed_time, results, heap, feed, verbose, pings_left,
                   oldvars, regvars, timevars>>

\* An exception leaves sanity_check(): the socket is closed on line 371
\* only, so it stays as it is.
CheckRaise(e) ==
    /\ pc' = "CheckFailed"
    /\ error' = e
    /\ sock' = sock

\* Lines 351-354 of sanity_check(pings): a new socket is connected.  The
\* call makes one collect_8bytes call and then pings - 1 passes of its loop.
CheckConnect ==
    /\ Callable
    /\ calls' = calls + 1
    /\ \E pings \in PingChoices : pings_left' = IF pings > 1 THEN pings - 1 ELSE 0
    /\ sock' = "open"
    /\ peer' = "up"
    /\ recvd' = <<>>
    /\ udp_sent' = <<>>
    /\ error' = "none"
    /\ pc' = "CheckStaging"
    /\ UNCHANGED <<config, staged, frames_read, bytes_data, start_time, current_time,
                   start_timestamp, counts, histograms, psd_number, position, res,
                   elapsed_time, results, heap, feed, verbose, oldvars, regvars, timevars>>

\* Line 356, stage(True): as Stage, with the two reads of the device time.
CheckStage ==
    /\ pc = "CheckStaging"
    /\ \E now \in StageClocks, id \in RandomIDs, recv \in StageResponses :
        \E o \in {register_call(binding, StageCalls(TRUE, Len(udp_sent) + 1, now), id, recv)} :
            /\ udp_sent' = udp_sent \o o.sent
            /\ IF o.error # "none"
               THEN staged' = staged /\ CheckRaise(o.error)
               ELSE IF Len(udp_sent') = Len(StageOrder(TRUE))
               THEN staged' = TRUE /\ pc' = "CheckFirst" /\ UNCHANGED <<sock, error>>
               ELSE UNCHANGED <<staged, pc, sock, error>>
    /\ UNCHANGED <<config, callvars, heap, feed, oldvars, results, peer, recvd, frames_read,
                   bytes_data, start_time, current_time, start_timestamp, counts,
                   histograms, psd_number, position, res, elapsed_time, regvars, timevars>>

\* What the prints of one pass of the loop of sanity_check raise on the
\* bytes f (lines 364-370): bytes_data[0] on empty bytes,
\* translate_neutron_data on fewer than eight, and
\* translate_instrument_time(bytes_data[1:], mode="datetime") on fewer than
\* six.
check_prints(f) ==
    IF f = <<>> THEN "IndexError"
    ELSE IF f[1] = NEUTRON_EVENT /\ Len(f) < 8 THEN "IndexError"
    ELSE IF f[1] = INST_TIME /\ translate_instrument_time(Tail(f)) = IndexError
    THEN "IndexError"
    ELSE "none"

\* Lines 357-372: collect_8bytes(sock, offset=False), whose bytes are only
\* printed, then one step per pass of the loop; the socket is closed when the
\* last pass has ended.
CheckCollect ==
    /\ pc \in {"CheckFirst", "Checking"}
    /\ frames_read < MaxFrames
    /\ \E f \in Deliveries(peer = "up") :
        /\ recvd' = recvd \o f
        /\ peer' = IF Len(f) < 8 THEN "closed" ELSE peer
        /\ frames_read' = frames_read + 1
        /\ bytes_data' = f
        /\ IF pc = "Checking" /\ check_prints(f) # "none"
           THEN CheckRaise(check_prints(f)) /\ pings_left' = pings_left
           ELSE /\ pings_left' = IF pc = "Checking" THEN pings_left - 1 ELSE pings_left
                /\ error' = error
                /\ IF pings_left' = 0
                   THEN sock' = "closed" /\ pc' = "Checked"
                   ELSE sock' = sock /\ pc' = "Checking"
    /\ UNCHANGED <<config, staged, udp_sent, start_time, current_time, start_timestamp,
                   counts, histograms, psd_number, position, res, elapsed_time, results,
                   heap, feed, verbose, calls, oldvars, regvars, timevars>>

\* A sock.recv(1) of the current collect_8bytes call of sanity_check raises
\* socket.timeout (line 352) after p was received.
CheckTimeout ==
    /\ pc \in {"CheckFirst", "Checking"}
    /\ peer = "up"
    /\ \E p \in TimedOutReads :
        /\ recvd' = recvd \o p
        /\ bytes_data' = p
    /\ CheckRaise("timeout")
    /\ UNCHANGED <<config, callvars, staged, udp_sent, peer, frames_read, start_time,
                   current_time, start_timestamp, counts, histograms, psd_number, position,
                   res, elapsed_time, results, heap, feed, oldvars, regvars, timevars>>

Next == Connect \/ Stage \/ Sync \/ AwaitingStart \/ Accumulating \/ RecvTimeout

Spec == Init /\ [][Next]_vars

(***************************************************************************)
(* Several calls on one object: read() again, and between the calls of     *)
(* read() the setters, unstage() and sanity_check().  frames_read counts    *)
(* the collect_8bytes calls of all of them, so MaxFrames bounds them        *)
(* together.                                                                *)
(***************************************************************************)
InitRuns ==
    /\ Init
    /\ exposure_time = 5
    /\ bins = 10

NextRuns ==
    \/ Next
    \/ ReadAgain
    \/ SetExposureTime
    \/ SetBins
    \/ Unstage
    \/ CheckConnect
    \/ CheckStage
    \/ CheckCollect
    \/ CheckTimeout

SpecRuns == InitRuns /\ [][NextRuns]_vars

(***************************************************************************)
(* A run on a device whose stream is fixed beforehand: feed holds the       *)
(* frames it sends, whole and in order, and every collect_8bytes call is    *)
(* handed the next one.  Neither the timeout nor a close by the device      *)
(* happens, and the run takes its next step whenever it has one: read() is  *)
(* a single thread that blocks in recv only until the next byte is there.   *)
(***************************************************************************)
FedFrames ==
    {TriggerFrame, TimeFrame(1000, 0), TimeFrame(1010, 0),
     NeutronFrame(0, 1, 1), NeutronFrame(7, 1, 0), NeutronFrame(3, 1, 1)}

RECURSIVE Concat(_)
Concat(fs) == IF fs = <<>> THEN <<>> ELSE Head(fs) \o Concat(Tail(fs))

Feeds == {Concat(fs) : fs \in UNION {[1..k -> FedFrames] : k \in 2..MaxFrames}}

InitFed ==
    /\ pc = "Idle"
    /\ psd_nums = {0, 7}
    /\ exposure_time = 10
    /\ bins = 10
    /\ staged = FALSE
    /\ udp_sent = <<>>
    /\ sock = "unopened"
    /\ peer = "up"
    /\ recvd = <<>>
    /\ frames_read = 0
    /\ bytes_data = <<>>
    /\ start_time = 0
    /\ current_time = 0
    /\ start_timestamp = Unbound
    /\ counts = <<>>
    /\ histograms = <<>>
    /\ psd_number = Unbound
    /\ position = None
    /\ res = Unbound
    /\ elapsed_time = Unbound
    /\ error = "none"
    /\ binding \in Bindings
    /\ results = <<>>
    /\ retired = <<>>
    /\ alloc = 1
    /\ feed \in Feeds
    /\ verbose = FALSE      \* read() is called as read(): verbose keeps its default
    /\ calls = 0
    /\ pings_left = 0
    /\ OldParked
    /\ RegParked
    /\ TimeParked

IsPrefix(a, b) == Len(a) <= Len(b) /\ SubSeq(b, 1, Len(a)) = a

\* The step of a collect_8bytes call takes the next eight bytes of feed.
Fed ==
    /\ Len(recvd') = Len(recvd) + 8
    /\ IsPrefix(recvd', feed)

NextFed ==
    \/ Connect
    \/ Stage
    \/ (Sync /\ Fed)
    \/ (AwaitingStart /\ Fed)
    \/ (Accumulating /\ Fed)

SpecFed == InitFed /\ [][NextFed]_vars /\ WF_vars(NextFed)

(***************************************************************************)
(* detector_reader.start and detector_reader.sanity_check, the reader of    *)
(* the two older files, next to Linear3HePSD.read on the same stream.  Its  *)
(* socket is made once, by __init__.  Its times are doubles; a double       *)
(* t >= 0 is kept as the whole number t * 2**DBL_SCALE, written in base     *)
(* LIMB with the lowest digit first and no zero at the top (<<>> is 0).     *)
(* Every double these readers compute is a multiple of 2**-DBL_SCALE: the   *)
(* least bit of 25*10**-8 is 2**-74.  Of self.arr0 and self.arr7 the counts *)
(* are kept, one per bin; an array is <<>> before start() made it.          *)
(***************************************************************************)
BINS == 1024
DBL_SCALE == 74
DBL_BITS == 53           \* significant bits of a double
LIMB == 65536            \* numerals are written in this base
LIMB_BITS == 16
Revisions == {"tcp_reader", "3he_detector_reader"}
MaxFeed == 3             \* frames of a stream both readers are run on

\* Numerals in base LIMB, lowest digit first.
RECURSIVE Norm(_)
Norm(b) ==
    IF b = <<>> THEN <<>>
    ELSE IF b[Len(b)] = 0 THEN Norm(SubSeq(b, 1, Len(b) - 1)) ELSE b

Zeros(k) == [i \in 1..k |-> 0]

\* The numeral of a whole number n >= 0.
RECURSIVE Limbs(_)
Limbs(n) == IF n = 0 THEN <<>> ELSE <<n % LIMB>> \o Limbs(n \div LIMB)

\* The numeral of a big-endian byte string.
RECURSIVE BytesLimbs(_)
BytesLimbs(b) ==
    IF b = <<>> THEN <<>>
    ELSE IF Len(b) = 1 THEN <<b[1]>>
    ELSE <<256 * b[Len(b) - 1] + b[Len(b)]>> \o BytesLimbs(SubSeq(b, 1, Len(b) - 2))

RECURSIVE AddCarry(_, _, _)
AddCarry(a, b, c) ==
    IF a = <<>> /\ b = <<>> THEN (IF c = 1 THEN <<1>> ELSE <<>>)
    ELSE LET x == IF a = <<>> THEN 0 ELSE a[1]
             y == IF b = <<>> THEN 0 ELSE b[1]
         IN  <<(x + y + c) % LIMB>>
             \o AddCarry(IF a = <<>> THEN <<>> ELSE Tail(a),
                         IF b = <<>> THEN <<>> ELSE Tail(b), (x + y + c) \div LIMB)

AddLimbs(a, b) == AddCarry(a, b, 0)

\* a - b for a >= b.
RECURSIVE SubBorrow(_, _, _)
SubBorrow(a, b, c) ==
    IF a = <<>> THEN <<>>
    ELSE LET y == (IF b = <<>> THEN 0 ELSE b[1]) + c
         IN  <<(a[1] - y) % LIMB>>
             \o SubBorrow(Tail(a), IF b = <<>> THEN <<>> ELSE Tail(b),
                          IF a[1] < y THEN 1 ELSE 0)

SubLimbs(a, b) == Norm(SubBorrow(a, b, 0))

\* a < b.
RECURSIVE LessLimbs(_, _)
LessLimbs(a, b) ==
    IF Len(a) # Len(b) THEN Len(a) < Len(b)
    ELSE IF a = <<>> THEN FALSE
    ELSE IF a[Len(a)] # b[Len(b)] THEN a[Len(a)] < b[Len(b)]
    ELSE LessLimbs(SubSeq(a, 1, Len(a) - 1), SubSeq(b, 1, Len(b) - 1))

\* a * k for a whole number k in 0..2**15.
RECURSIVE MulCarry(_, _, _)
MulCarry(a, k, c) ==
    IF a = <<>> THEN (IF c = 0 THEN <<>> ELSE <<c>>)
    ELSE <<(a[1] * k + c) % LIMB>> \o MulCarry(Tail(a), k, (a[1] * k + c) \div LIMB)

MulInt(a, k) == Norm(MulCarry(a, k, 0))

\* a * 2**k.
ShiftLeft(a, k) ==
    IF a = <<>> THEN <<>>
    ELSE Zeros(k \div LIMB_BITS) \o MulInt(a, Pow2(k % LIMB_BITS))

\* The number of binary digits of a, and its binary digit of weight 2**i.
BitLen(a) ==
    IF a = <<>> THEN 0 ELSE LIMB_BITS * (Len(a) - 1) + Log2Floor(a[Len(a)]) + 1
Bit(a, i) ==
    IF i \div LIMB_BITS >= Len(a) THEN 0
    ELSE (a[i \div LIMB_BITS + 1] \div Pow2(i % LIMB_BITS)) % 2

\* Some binary digit of a below weight 2**i is 1.
LowBits(a, i) ==
    \/ \E j \in 1..Len(a) : j <= i \div LIMB_BITS /\ a[j] # 0
    \/ /\ i \div LIMB_BITS < Len(a)
       /\ a[i \div LIMB_BITS + 1] % Pow2(i % LIMB_BITS) # 0

\* a with its binary digits below weight 2**i cleared.
ClearLow(a, i) ==
    [j \in 1..Len(a) |->
        IF j <= i \div LIMB_BITS THEN 0
        ELSE IF j = i \div LIMB_BITS + 1 THEN a[j] - (a[j] % Pow2(i % LIMB_BITS))
        ELSE a[j]]

\* The double nearest to a, ties to the even one: what every float operation
\* of Python does to its exact result.
Round53(a) ==
    IF BitLen(a) <= DBL_BITS THEN a
    ELSE LET t == BitLen(a) - DBL_BITS
             up == Bit(a, t - 1) = 1 /\ (LowBits(a, t - 1) \/ Bit(a, t) = 1)
         IN  IF up THEN AddLimbs(ClearLow(a, t), ShiftLeft(<<1>>, t))
             ELSE ClearLow(a, t)

\* The double 25*10**-8, which is 4722366482869645 * 2**-74.
QuarterMicro == <<60813, 41141, 50935, 16>>

\* A whole number of seconds as a double.
Seconds(n) == ShiftLeft(Limbs(n), DBL_SCALE)

\* The time decoder a revision's start() calls on self.bytes_data, the whole
\* frame with its tag.  tcp_reader.py: instrument_time of
\* pyNEUNET/translaters.py, int.from_bytes(input[:4]) + input[4]/2**8, which
\* is exact.  3he_detector_reader.py: translate_instrument_time of the
\* translaters.py next to it, which skips the tag and returns ii + s + s1:
\* ii + s is exact (a multiple of 2**-15 below 2**32), s1 is the double
\* product of 25*10**-8 and a whole number below 2**11, and the last sum is
\* rounded to a double.  Both index past a one-byte input.
dr_instrument_time(rev, input) ==
    IF rev = "tcp_reader"
    THEN IF Len(input) < 5 THEN IndexError
         ELSE ShiftLeft(Norm(BytesLimbs(SubSeq(input, 1, 5))), DBL_SCALE - 8)
    ELSE IF Len(input) < 8 THEN IndexError
         ELSE LET s == 128 * input[6] + input[7] \div 2
                  s1 == Round53(MulInt(QuarterMicro, 256 * (input[7] % 8) + input[8]))
                  ii == Norm(BytesLimbs(SubSeq(input, 2, 5)))
              IN  Round53(AddLimbs(ShiftLeft(AddLimbs(ShiftLeft(ii, 15), Limbs(s)),
                                             DBL_SCALE - 15), s1))

\* self.current_time - self.start_time < seconds: the difference is rounded
\* to a double; a negative one is below seconds.
dr_running(ct, st, seconds) ==
    IF LessLimbs(ct, st) THEN TRUE
    ELSE LessLimbs(Round53(SubLimbs(ct, st)), Seconds(seconds))

\* res = BINS-1 if position*BINS >= BINS else int(position*BINS).  BINS is a
\* power of two, so the product is the double position scaled exactly, and it
\* is a whole number only when position is pl/pulse_height itself: int()
\* yields the exact floor.
dr_res(pos) ==
    IF pos[1] * BINS >= BINS * pos[2] THEN BINS - 1 ELSE (pos[1] * BINS) \div pos[2]

\* Mutant of dr_count_neutron: the event is dropped while start_time is
\* not fixed, as Linear3HePSD.read does.
dr_count_neutron_started(bin_data, st, arr0, arr7, c0, c7) ==
    LET d == translate_neutron_data(bin_data)
    IN  IF d.position = None \/ d.psd_number \notin {0, 7} \/ st = <<>>
        THEN [arr0 |-> arr0, arr7 |-> arr7, count0 |-> c0, count7 |-> c7]
        ELSE IF d.psd_number = 0
        THEN [arr0 |-> [arr0 EXCEPT ![dr_res(d.position)] = @ + 1], arr7 |-> arr7,
              count0 |-> c0 + 1, count7 |-> c7]
        ELSE [arr0 |-> arr0, arr7 |-> [arr7 EXCEPT ![dr_res(d.position)] = @ + 1],
              count0 |-> c0, count7 |-> c7 + 1]

\* count_neutron (tcp_reader.py) and translate_5f (3he_detector_reader.py):
\* the arrays and totals after the call.  st, self.start_time, is not
\* looked at.
dr_count_neutron(bin_data, st, arr0, arr7, c0, c7) ==
    LET d == translate_neutron_data(bin_data)
    IN  IF d.position = None \/ d.psd_number \notin {0, 7}
        THEN [arr0 |-> arr0, arr7 |-> arr7, count0 |-> c0, count7 |-> c7]
        ELSE IF d.psd_number = 0
        THEN [arr0 |-> [arr0 EXCEPT ![dr_res(d.position)] = @ + 1], arr7 |-> arr7,
              count0 |-> c0 + 1, count7 |-> c7]
        ELSE [arr0 |-> arr0, arr7 |-> [arr7 EXCEPT ![dr_res(d.position)] = @ + 1],
              count0 |-> c0, count7 |-> c7 + 1]

RevFeeds == {Concat(fs) : fs \in UNION {[1..k -> FedFrames] : k \in 2..MaxFeed}}

InitRev ==
    /\ pc = "Idle"
    /\ psd_nums = {0, 7}
    /\ exposure_time = 10
    /\ bins = 10
    /\ staged = FALSE
    /\ udp_sent = <<>>
    /\ sock = "unopened"
    /\ peer = "up"
    /\ recvd = <<>>
    /\ frames_read = 0
    /\ bytes_data = <<>>
    /\ start_time = 0
    /\ current_time = 0
    /\ start_timestamp = Unbound
    /\ counts = <<>>
    /\ histograms = <<>>
    /\ psd_number = Unbound
    /\ position = None
    /\ res = Unbound
    /\ elapsed_time = Unbound
    /\ error = "none"
    /\ binding \in Bindings
    /\ results = <<>>
    /\ retired = <<>>
    /\ alloc = 1
    /\ feed \in RevFeeds
    /\ verbose = FALSE      \* read() is called as read(): verbose keeps its default
    /\ calls = 0
    /\ pings_left = 0
    /\ revision \in Revisions
    /\ dr_pc = "Idle"
    /\ dr_sock = "unconnected"
    /\ dr_read = 0
    /\ dr_bytes_data = <<>>
    /\ dr_start_time = Unbound
    /\ dr_current_time = Unbound
    /\ dr_count0 = Unbound
    /\ dr_count7 = Unbound
    /\ dr_arr0 = <<>>
    /\ dr_arr7 = <<>>
    /\ RegParked
    /\ TimeParked

\* start(), from connect to self.current_time = 0.  The socket is the one
\* __init__ created: connect raises OSError on a socket that sanity_check
\* has connected or closed, and the exception leaves start() before any
\* field is set.
dr_Connect ==
    /\ dr_pc = "Idle"
    /\ IF dr_sock = "unconnected"
       THEN /\ dr_sock' = "connected"
            /\ dr_arr0' = [i \in 0..(BINS - 1) |-> 0]
            /\ dr_arr7' = [i \in 0..(BINS - 1) |-> 0]
            /\ dr_count0' = 0
            /\ dr_count7' = 0
            /\ dr_start_time' = <<>>
            /\ dr_current_time' = <<>>
            /\ dr_pc' = "Syncing"
       ELSE /\ dr_pc' = "Failed"
            /\ UNCHANGED <<dr_sock, dr_arr0, dr_arr7, dr_count0, dr_count7, dr_start_time,
                           dr_current_time>>
    /\ UNCHANGED <<revision, dr_read, dr_bytes_data, runvars, regvars, timevars>>

\* sanity_check(pings) on the bytes of feed (tcp_reader.py lines 177-202,
\* 3he_detector_reader.py lines 109-128), followed on the streams that hold
\* the bytes it reads.  tcp_reader.py reads one byte and then as many frames
\* of eight bytes as range(pings-1) has passes, and one more, wherever the
\* frames of the stream begin.  3he_detector_reader.py starts with
\* collect_8bytes(offset=True), which raises IndexError on an
\* instrument-time frame after self.bytes_data is set; the exception
\* leaves sanity_check() with the socket connected.  The frames are
\* printed only: the decoders do not raise on eight bytes.  No field of
\* start() is set, and self.sock.close() is the last statement.  No byte of
\* feed has been read while the socket is unconnected (dr_read = 0).
dr_sanity_check ==
    /\ dr_pc = "Idle"
    /\ dr_sock = "unconnected"
    /\ \E pings \in PingChoices :
        LET more == IF pings > 1 THEN 8 * (pings - 1) ELSE 0
            k == IF revision = "tcp_reader" THEN 1 ELSE discarded(feed)
            raised == /\ revision = "3he_detector_reader"
                      /\ feed[k + 1] = INST_TIME
                      /\ dr_instrument_time(revision, <<feed[k + 1]>>) = IndexError
            n == IF raised THEN k + 8 ELSE k + 8 + more
        IN  /\ k + 8 + more <= Len(feed)
            /\ dr_read' = n
            /\ dr_bytes_data' = SubSeq(feed, n - 7, n)
            /\ dr_sock' = IF raised THEN "connected" ELSE "closed"
    /\ UNCHANGED <<revision, dr_pc, dr_start_time, dr_current_time, dr_count0, dr_count7,
                   dr_arr0, dr_arr7, runvars, regvars, timevars>>

\* self.collect_8bytes(offset=True) on the bytes of feed not yet read: the
\* call returns when the frame that opens at the first start byte is
\* complete.  For an instrument-time frame the decoder is called on the one
\* start byte and raises IndexError, which leaves start().
dr_Sync ==
    /\ dr_pc = "Syncing"
    /\ LET rest == SubSeq(feed, dr_read + 1, Len(feed))
           k == discarded(rest)
       IN  /\ k + 8 <= Len(rest)
           /\ dr_read' = dr_read + k + 8
           /\ dr_bytes_data' = SubSeq(rest, k + 1, k + 8)
           /\ IF rest[k + 1] = INST_TIME
              THEN IF dr_instrument_time(revision, <<rest[k + 1]>>) = IndexError
                   THEN dr_pc' = "Failed" /\ dr_start_time' = dr_start_time
                   ELSE /\ dr_start_time' = dr_instrument_time(revision, <<rest[k + 1]>>)
                        /\ dr_pc' = "AwaitingStart"
              ELSE dr_pc' = "AwaitingStart" /\ dr_start_time' = dr_start_time
    /\ UNCHANGED <<revision, dr_sock, dr_current_time, dr_count0, dr_count7, dr_arr0,
                   dr_arr7, runvars, regvars, timevars>>

\* One pass of "while not self.start_time" and the tests of both loops.
dr_AwaitingStart ==
    /\ dr_pc = "AwaitingStart"
    /\ dr_read + 8 <= Len(feed)
    /\ LET f == SubSeq(feed, dr_read + 1, dr_read + 8)
           c == dr_count_neutron(f, dr_start_time, dr_arr0, dr_arr7, dr_count0, dr_count7)
       IN  /\ dr_read' = dr_read + 8
           /\ dr_bytes_data' = f
           /\ IF f[1] = NEUTRON_EVENT
              THEN /\ dr_arr0' = c.arr0
                   /\ dr_arr7' = c.arr7
                   /\ dr_count0' = c.count0
                   /\ dr_count7' = c.count7
                   /\ dr_start_time' = dr_start_time
              ELSE /\ UNCHANGED <<dr_arr0, dr_arr7, dr_count0, dr_count7>>
                   /\ dr_start_time' = IF f[1] = INST_TIME
                                       THEN dr_instrument_time(revision, f)
                                       ELSE dr_start_time
           /\ dr_pc' = IF dr_start_time' = <<>> THEN "AwaitingStart"
                       ELSE IF dr_running(dr_current_time, dr_start_time', exposure_time)
                       THEN "Accumulating"
                       ELSE "Done"
           /\ dr_sock' = IF dr_pc' = "Done" THEN "closed" ELSE dr_sock
    /\ UNCHANGED <<revision, dr_current_time, runvars, regvars, timevars>>

\* One pass of "while self.current_time - self.start_time < seconds" and
\* the loop test; the socket is closed when the loop ends.
dr_Accumulating ==
    /\ dr_pc = "Accumulating"
    /\ dr_read + 8 <= Len(feed)
    /\ LET f == SubSeq(feed, dr_read + 1, dr_read + 8)
           c == dr_count_neutron(f, dr_start_time, dr_arr0, dr_arr7, dr_count0, dr_count7)
       IN  /\ dr_read' = dr_read + 8
           /\ dr_bytes_data' = f
           /\ IF f[1] = NEUTRON_EVENT
              THEN /\ dr_arr0' = c.arr0
                   /\ dr_arr7' = c.arr7
                   /\ dr_count0' = c.count0
                   /\ dr_count7' = c.count7
                   /\ dr_current_time' = dr_current_time
              ELSE /\ UNCHANGED <<dr_arr0, dr_arr7, dr_count0, dr_count7>>
                   /\ dr_current_time' = IF f[1] = INST_TIME
                                         THEN dr_instrument_time(revision, f)
                                         ELSE dr_current_time
           /\ dr_pc' = IF dr_running(dr_current_time', dr_start_time, exposure_time)
                       THEN "Accumulating"
                       ELSE "Done"
           /\ dr_sock' = IF dr_pc' = "Done" THEN "closed" ELSE dr_sock
    /\ UNCHANGED <<revision, dr_start_time, runvars, regvars, timevars>>

\* start() has ended, or waits in recv for bytes beyond the end of feed.
dr_Halted ==
    \/ dr_pc \in {"Done", "Failed"}
    \/ dr_pc \in {"Syncing", "AwaitingStart", "Accumulating"} /\ Len(feed) - dr_read < 8

\* The two readers share nothing but the stream, which neither of them
\* changes, so the order of their steps makes no difference to either: the
\* older reader is run first, as far as the stream lets it go.
NextRev ==
    \/ dr_Connect
    \/ dr_sanity_check
    \/ dr_Sync
    \/ dr_AwaitingStart
    \/ dr_Accumulating
    \/ (dr_Halted /\ NextFed)

SpecRev == InitRev /\ [][NextRev]_vars

(***************************************************************************)
(* _count_neutron on its own: one call on a fresh histogram, for every      *)
(* frame of WideNeutronFrames and every bin count of CountBins: those up to *)
(* MaxBins, 23 (the least for which the doubles of line 167 miss the exact  *)
(* floor) and 350 (the default of __init__).                                *)
(***************************************************************************)
WideNeutronFrames ==
    {<<NEUTRON_EVENT, 0, 0, 0, b4, b5, b6, b7>> :
        b4 \in {0, 15, 16, 112, 128, 240, 255}, b5 \in {0, 255},
        b6 \in {0, 63, 64, 192, 255}, b7 \in {0, 1, 255}}
    \cup {NeutronFrame(0, 15, 7), NeutronFrame(7, 15, 334), NeutronFrame(0, 23, 326),
          NeutronFrame(0, 16, 333)}

CountBins == (1..MaxBins) \cup {23, 350}

InitCount ==
    /\ pc = "Counting"
    /\ psd_nums = 0..7
    /\ exposure_time = 10
    /\ bins \in CountBins
    /\ staged = TRUE
    /\ udp_sent = StageWrites
    /\ sock = "open"
    /\ peer = "up"
    /\ recvd = <<>>
    /\ frames_read = 0
    /\ bytes_data \in WideNeutronFrames
    /\ start_time = 1000 * TICKS
    /\ current_time = 0
    /\ start_timestamp = 1000 * TICKS
    /\ counts = [i \in psd_nums |-> 0]
    /\ histograms = [i \in psd_nums |-> blank_array(bins)]
    /\ psd_number = Unbound
    /\ position = None
    /\ res = Unbound
    /\ elapsed_time = Unbound
    /\ error = "none"
    /\ binding = "tests"
    /\ results = <<>>
    /\ retired = <<>>
    /\ alloc = 1
    /\ feed = <<>>
    /\ verbose = FALSE
    /\ calls = 0
    /\ pings_left = 0
    /\ OldParked
    /\ RegParked
    /\ TimeParked

\* Line 257: self._count_neutron() on self.__bytes_data.
CountStep ==
    /\ pc = "Counting"
    /\ LET c == count_neutron(bytes_data, counts, histograms, bins)
       IN  /\ psd_number' = c.psd_number
           /\ position' = c.position
           /\ res' = c.res
           /\ counts' = c.counts
           /\ histograms' = c.histograms
           /\ error' = c.error
    /\ pc' = "Counted"
    /\ UNCHANGED <<config, callvars, heap, feed, oldvars, results, staged, udp_sent, sock, peer, recvd, frames_read,
                   bytes_data, start_time, current_time, start_timestamp,
                   elapsed_time, regvars, timevars>>

NextCount == CountStep

SpecCount == InitCount /\ [][NextCount]_vars

(***************************************************************************)
(* translate_neutron_data on its own: one call, in either resolution type,  *)
(* on every frame of DecoderFrames.                                         *)
(***************************************************************************)
DecoderFrames ==
    {<<NEUTRON_EVENT, 0, 0, 0, b4, b5, b6, b7>> :
        b4 \in {0, 7, 8, 15, 16, 112, 128, 240, 255}, b5 \in {0, 1, 255},
        b6 \in {0, 15, 16, 63, 64, 192, 240, 255}, b7 \in {0, 1, 255}}

ResolutionTypes == {12, 14}

InitDecode ==
    /\ pc = "Decoding"
    /\ psd_nums = 0..7
    /\ exposure_time = 10
    /\ bins = 10
    /\ staged = FALSE
    /\ udp_sent = <<>>
    /\ sock = "unopened"
    /\ peer = "up"
    /\ recvd = <<>>
    /\ frames_read = 0
    /\ bytes_data \in DecoderFrames
    /\ start_time = 0
    /\ current_time = 0
    /\ start_timestamp = Unbound
    /\ counts = <<>>
    /\ histograms = <<>>
    /\ psd_number = Unbound
    /\ position = None
    /\ res = Unbound
    /\ elapsed_time = Unbound
    /\ error = "none"
    /\ binding = "communications"
    /\ results = <<>>
    /\ retired = <<>>
    /\ alloc = 1
    /\ feed = <<>>
    /\ verbose = FALSE
    /\ calls = 0
    /\ pings_left = 0
    /\ OldParked
    /\ RegParked
    /\ TimeParked

\* psd_number, position = translate_neutron_data(bytes_data, type)
DecodeStep ==
    /\ pc = "Decoding"
    /\ \E type \in ResolutionTypes :
        LET d == IF type = 12 THEN translate_neutron_data_type12(bytes_data)
                 ELSE translate_neutron_data(bytes_data)
        IN  /\ psd_number' = d.psd_number
            /\ position' = d.position
            /\ pc' = IF type = 12 THEN "Decoded12" ELSE "Decoded14"
    /\ UNCHANGED <<config, callvars, heap, feed, oldvars, results, staged, udp_sent, sock, peer, recvd,
                   frames_read, bytes_data, start_time, current_time, start_timestamp,
                   counts, histograms, res, elapsed_time, error, regvars, timevars>>

NextDecode == DecodeStep

SpecDecode == InitDecode /\ [][NextDecode]_vars

(***************************************************************************)
(* communications.py on its own: one call of register_readwrite, or one     *)
(* call of read_full_register, against a device that answers every request  *)
(* with any of Responses.                                                   *)
(***************************************************************************)
RegArgs ==
    [ID : {Unbound, 7, 394}, length : {1, 5},
     address : {DEFAULT_ADDRESS, UDP_DEVICE_TIME},
     data : {NoData, Scalar(128), ByteList(<<>>), ByteList(<<138, 128>>)}]

Responses ==
    {Response(fl, id, d) : fl \in {0, 1, 2, 128, 129, 142, 143, 240, 241},
                           id \in {0, 7}, d \in {<<>>, <<1, 2>>}}
SweepResponses == {Response(128, 0, <<1>>), Response(194, 9, <<>>), Response(129, 0, <<>>)}

InitReg ==
    /\ RunParked
    /\ OldParked
    /\ TimeParked
    /\ caller \in {"register_readwrite", "read_full_register"}
    /\ reg_pc = "Idle"
    /\ reg_args = <<>>
    /\ sendBytes = <<>>
    /\ recvData = <<>>
    /\ udp_log = <<>>
    /\ reg_result = None
    /\ reg_error = [error |-> "none", args |-> <<>>, filename |-> None]
    /\ udpBytes = <<>>

\* register_readwrite, lines 11-35: ID = Unbound stands for ID=None, which
\* draws the id from randint; the request is built and handed to sendto.
RegSend ==
    /\ caller = "register_readwrite"
    /\ reg_pc = "Idle"
    /\ \E a \in RegArgs : \E id \in (IF a.ID = Unbound THEN RandomIDs ELSE {a.ID}) :
        LET req == register_request(id, a.length, a.address, a.data)
        IN  /\ reg_args' = [a EXCEPT !.ID = id]
            /\ IF req.error # "none"
               THEN /\ reg_pc' = "Raised"
                    /\ reg_error' = [error |-> req.error, args |-> <<>>, filename |-> None]
                    /\ UNCHANGED <<sendBytes, udp_log>>
               ELSE /\ sendBytes' = req.sendBytes
                    /\ udp_log' = Append(udp_log, <<"sendto", req.sendBytes>>)
                    /\ reg_pc' = "Receiving"
                    /\ UNCHANGED reg_error
    /\ UNCHANGED <<caller, recvData, reg_result, udpBytes, runvars, oldvars, timevars>>

\* register_readwrite, lines 36-48: the one recv, the flag test, the return.
RegRecv ==
    /\ caller = "register_readwrite"
    /\ reg_pc = "Receiving"
    /\ \E recv \in Responses :
        LET rsp == register_response(sendBytes, recv)
        IN  /\ recvData' = recv
            /\ udp_log' = Append(udp_log, <<"recv", recv>>)
            /\ reg_error' = [error |-> rsp.error, args |-> rsp.args, filename |-> rsp.filename]
            /\ reg_result' = rsp.result
            /\ reg_pc' = IF rsp.error = "none" THEN "Returned" ELSE "Raised"
    /\ UNCHANGED <<caller, reg_args, sendBytes, udpBytes, runvars, oldvars, timevars>>

\* read_full_register, line 59-60: the next pass of the loop calls
\* register_readwrite(length=length, address=address), which sends its
\* request.
SweepSend ==
    /\ caller = "read_full_register"
    /\ reg_pc = "Idle"
    /\ Len(udpBytes) < Len(FullRegister)
    /\ \E id \in RandomIDs :
        LET row == FullRegister[Len(udpBytes) + 1]
            req == register_request(id, row[2], row[1], NoData)
        IN  /\ reg_args' = [ID |-> id, length |-> row[2], address |-> row[1],
                            data |-> NoData]
            /\ sendBytes' = req.sendBytes
            /\ udp_log' = Append(udp_log, <<"sendto", req.sendBytes>>)
    /\ reg_pc' = "Receiving"
    /\ UNCHANGED <<caller, recvData, reg_result, reg_error, udpBytes, runvars, oldvars,
                   timevars>>

\* read_full_register, line 60: the call receives its response; a bus error
\* leaves read_full_register, otherwise the row <<address, recvData[8:]>> is
\* appended (the code formats it as text) and the loop goes on.
SweepRecv ==
    /\ caller = "read_full_register"
    /\ reg_pc = "Receiving"
    /\ \E recv \in SweepResponses :
        LET rsp == register_response(sendBytes, recv)
        IN  /\ recvData' = recv
            /\ udp_log' = Append(udp_log, <<"recv", recv>>)
            /\ reg_error' = [error |-> rsp.error, args |-> rsp.args, filename |-> rsp.filename]
            /\ reg_result' = rsp.result
            /\ IF rsp.error # "none"
               THEN reg_pc' = "Raised" /\ UNCHANGED udpBytes
               ELSE /\ udpBytes' = Append(udpBytes,
                                          <<reg_args.address, SubSeq(recv, 9, Len(recv))>>)
                    /\ reg_pc' = IF Len(udpBytes') = Len(FullRegister)
                                 THEN "Returned" ELSE "Idle"
    /\ UNCHANGED <<caller, reg_args, sendBytes, runvars, oldvars, timevars>>

NextReg == RegSend \/ RegRecv \/ SweepSend \/ SweepRecv

SpecReg == InitReg /\ [][NextReg]_vars

(***************************************************************************)
(* instrument_time on its own: the clock value is encoded as                *)
(* instrument_time(None) does and the bytes are decoded again.              *)
(***************************************************************************)
InitTime ==
    /\ RunParked
    /\ OldParked
    /\ RegParked
    /\ time_pc = "Idle"
    /\ clock \in ClockTimes
    /\ time_bytes = <<>>
    /\ time_seconds = <<>>

EncodeTime ==
    /\ time_pc = "Idle"
    /\ time_bytes' = instrument_time_bytes(clock)
    /\ time_pc' = "Encoded"
    /\ UNCHANGED <<clock, time_seconds, runvars, oldvars, regvars>>

DecodeTime ==
    /\ time_pc = "Encoded"
    /\ time_seconds' = instrument_time_seconds(time_bytes)
    /\ time_pc' = "Decoded"
    /\ UNCHANGED <<clock, time_bytes, runvars, oldvars, regvars>>

NextTime == EncodeTime \/ DecodeTime

SpecTime == InitTime /\ [][NextTime]_vars

(***************************************************************************)
(* Claims                                                                   *)
(***************************************************************************)

\* No event has been counted.
AllZero ==
    \A d \in DOMAIN counts :
        /\ counts[d] = 0
        /\ \A i \in DOMAIN histograms[d] : histograms[d][i][2] = 0

\* The time an instrument-time frame carries.
FrameTime(f) == translate_instrument_time(Tail(f))

ScenarioStream ==
    <<0, 17>> \o TimeFrame(1000, 0) \o NeutronFrame(0, 1, 1)
              \o TimeFrame(1005, 0) \o TimeFrame(1010, 0)

\* C1: on the scenario stream (two garbage bytes, time 1000.0, an event of
\* detector 0 with both pulses 1, time 1005.0, time 1010.0) with exposure 10 s,
\* 10 bins and detectors {0, 7}, the run raises nothing and ends after the last
\* frame with elapsed time 10.0, one count in bin 5 of detector 0 and nothing
\* else counted.
C1_ScenarioRun ==
    (/\ psd_nums = {0, 7} /\ exposure_time = 10 /\ bins = 10
     /\ frames_read >= 1
     /\ IsPrefix(recvd, ScenarioStream))
    => /\ error = "none"
       /\ recvd = ScenarioStream =>
            /\ pc = "Done"
            /\ current_time = 1010 * TICKS
            /\ elapsed_time = 10 * TICKS
            /\ \A i \in 0..9 : histograms[0][i][2] = (IF i = 5 THEN 1 ELSE 0)
            /\ \A i \in 0..9 : histograms[7][i][2] = 0

\* C2: while the run accumulates, current_time - start_time is below the
\* exposure time; when it has returned, elapsed_time = current_time -
\* start_time is at least the exposure time and the last frame decoded is the
\* instrument-time frame that carries current_time.
C2_ExposureReached ==
    /\ pc = "Accumulating" => current_time - start_time < exposure_time * TICKS
    /\ pc = "Done" =>
        /\ elapsed_time = current_time - start_time
        /\ elapsed_time >= exposure_time * TICKS
        /\ bytes_data[1] = INST_TIME
        /\ FrameTime(bytes_data) = current_time

C2_Witness ==
    /\ pc = "Done"
    /\ exposure_time = 10
    /\ elapsed_time = 10 * TICKS
    /\ frames_read >= 4

\* The state right after the frame that fixed start_time.
JustStarted ==
    /\ pc = "Accumulating"
    /\ current_time = 0
    /\ bytes_data[1] = INST_TIME
    /\ FrameTime(bytes_data) = start_time

\* C3: as long as the run awaits its start, and at the moment start_time is
\* fixed, every histogram bin and every total count is zero.
C3_NoCountBeforeStart == (pc = "AwaitingStart" \/ JustStarted) => AllZero

\* A countable event of detector 0 was read while awaiting the start, right
\* before the frame that fixed start_time.
C3_Witness ==
    /\ JustStarted
    /\ frames_read = 3
    /\ SubSeq(recvd, Len(recvd) - 15, Len(recvd) - 8) = NeutronFrame(0, 1, 1)

\* C4: the run is never still awaiting its start after it has decoded an
\* instrument-time frame there, whatever time the frame carries.
C4_AnyTimeFrameStarts == pc = "AwaitingStart" => bytes_data[1] # INST_TIME

\* C5: when the frame found by the resynchronizing read is an instrument-time
\* frame, the run has not failed and start_time is the time of that frame.
C5_SyncSeedsStart ==
    (frames_read = 1 /\ bytes_data # <<>> /\ bytes_data[1] = INST_TIME)
    => /\ error = "none"
       /\ pc # "Failed"
       /\ start_time = FrameTime(bytes_data)

\* C6: an accumulation step on a neutron frame with a position and an active
\* detector adds one to exactly one bin of that detector and to its total
\* count, and leaves every other bin, every bin position, the other detectors,
\* start_time and current_time as they were.
C6_CountEffect ==
    [][(/\ pc = "Accumulating"
        /\ frames_read' = frames_read + 1
        /\ Len(bytes_data') = 8
        /\ bytes_data'[1] = NEUTRON_EVENT
        /\ translate_neutron_data(bytes_data').position # None
        /\ translate_neutron_data(bytes_data').psd_number \in psd_nums)
       => LET d == translate_neutron_data(bytes_data').psd_number
          IN  /\ \E i \in 0..(bins - 1) :
                    histograms' = [histograms EXCEPT ![d][i][2] = @ + 1]
              /\ counts' = [counts EXCEPT ![d] = @ + 1]
              /\ start_time' = start_time
              /\ current_time' = current_time
              /\ error' = "none"]_vars

\* Detector 7 has counted the event with pulse_right = 0 during accumulation.
C6_Witness ==
    /\ pc = "Accumulating"
    /\ bytes_data = NeutronFrame(7, 1, 0)
    /\ counts = [i \in psd_nums |-> IF i = 7 THEN 1 ELSE 0]
    /\ histograms[7][bins - 1][2] = 1

\* C7: after a neutron frame of a detector outside the active set has been
\* read during accumulation, no error has been raised and the run still
\* accumulates, with counters only for the active detectors.
C7_InactiveIgnored ==
    (/\ start_time # 0
     /\ Len(bytes_data) = 8
     /\ bytes_data[1] = NEUTRON_EVENT
     /\ translate_neutron_data(bytes_data).psd_number \notin psd_nums)
    => /\ error = "none"
       /\ pc = "Accumulating"
       /\ DOMAIN counts = psd_nums

\* floor(position * bin_count) clamped to [0, bin_count-1].
ClampedFloor(pos, nbins) ==
    LET q == (pos[1] * nbins) \div pos[2]
    IN  IF q > nbins - 1 THEN nbins - 1 ELSE IF q < 0 THEN 0 ELSE q

\* C8: the bin incremented for an accepted event is
\* floor(position * bin_count) clamped to [0, bin_count-1].
C8_ClampedFloorBin ==
    (pc = "Counted" /\ position # None)
    => /\ error = "none"
       /\ histograms[psd_number][ClampedFloor(position, bins)][2] = 1

\* C9: the bin index computed for a frame with a non-zero pulse height lies
\* in [0, bin_count-1], the count lands in that bin without an error, and
\* with pulse_right = 0 (position 1.0) the bin is bin_count-1.
C9_BinInRange ==
    (pc = "Counted" /\ position # None)
    => /\ res \in 0..(bins - 1)
       /\ error = "none"
       /\ histograms[psd_number][res][2] = 1
       /\ pulse_right(bytes_data) = 0 => res = bins - 1

C9_Witness ==
    /\ pc = "Counted"
    /\ position # None
    /\ pulse_right(bytes_data) = 0
    /\ bins >= 2
    /\ res = bins - 1
    /\ histograms[psd_number][bins - 1][2] = 1

\* C10 as stated: the decoded detector is in [0,7] and the decoded position,
\* when there is one, is in [0,1).
C10_PositionBelowOne ==
    pc = "Counted"
    => /\ psd_number \in 0..7
       /\ position # None => (0 <= position[1] /\ position[1] < position[2])

\* C10 as amended: the decoded detector is in [0,7] and the decoded position,
\* when there is one, is in [0,1]; it is below 1 exactly when pulse_right > 0.
C10_PositionRange ==
    pc = "Counted"
    => /\ psd_number \in 0..7
       /\ position # None =>
            /\ position[1] = pulse_left(bytes_data)
            /\ position[2] = pulse_left(bytes_data) + pulse_right(bytes_data)
            /\ 0 <= position[1] /\ position[1] <= position[2]
            /\ (position[1] < position[2]) <=> (pulse_right(bytes_data) > 0)

\* A frame with pulse_right = 0 has been decoded to position 1.
C10_Witness ==
    /\ pc = "Counted"
    /\ position # None
    /\ position[1] = position[2]
    /\ psd_number = 7

\* C11: an accumulation step on a neutron frame whose pulses sum to zero
\* decodes no position, raises nothing, changes no histogram bin and no total
\* count, and leaves the run accumulating.
C11_ZeroHeightSkipped ==
    [][(/\ pc = "Accumulating"
        /\ frames_read' = frames_read + 1
        /\ Len(bytes_data') = 8
        /\ bytes_data'[1] = NEUTRON_EVENT
        /\ pulse_left(bytes_data') + pulse_right(bytes_data') = 0)
       => /\ position' = None
          /\ counts' = counts
          /\ histograms' = histograms
          /\ error' = "none"
          /\ pc' = "Accumulating"]_vars

\* A zero-height frame has been processed after an event was counted.
C11_Witness ==
    /\ pc = "Accumulating"
    /\ bytes_data = NeutronFrame(0, 0, 0)
    /\ position = None
    /\ counts[7] = 1

\* The exceptions by which Python reports a failed stream read.
TransportErrors == {"timeout", "ConnectionResetError"}

\* C19: once the device has closed the stream or a read has timed out, the
\* run has failed with a transport error and has returned no result, and the
\* bytes of a frame cut short by the failure have not been decoded into the
\* start time or the current time.
C19_TransportFailureFatal ==
    (peer = "closed" \/ error = "timeout")
    => /\ pc = "Failed"
       /\ error \in TransportErrors
       /\ elapsed_time = Unbound
       /\ (Len(bytes_data) \in 1..7 /\ bytes_data[1] = INST_TIME /\ frames_read > 1)
          => /\ start_time # FrameTime(bytes_data)
             /\ current_time # FrameTime(bytes_data)

\* C20: the connection a run has opened is released on every exit from the
\* run.  The step that ends a run of Linear3HePSD.read or of
\* detector_reader.start, by returning or by any exception, leaves the
\* socket of that run closed.
C20_EveryExitReleases ==
    [][ /\ (pc \in {"Staging", "Syncing", "AwaitingStart", "Accumulating"}
            /\ pc' \in {"Done", "Failed"}) => sock' = "closed"
        /\ (dr_pc \in {"Syncing", "AwaitingStart", "Accumulating"}
            /\ dr_pc' \in {"Done", "Failed"}) => dr_sock' = "closed"
      ]_vars

\* The part of C20 that Linear3HePSD.read satisfies, with its
\* with-statement: a run of read() that has ended, by returning or by any
\* exception, has closed its socket, and a run that has not connected yet
\* has none open.
ReadReleasesConnection ==
    /\ pc \in {"Done", "Failed"} => sock = "closed"
    /\ sock = "open" => pc \in {"Staging", "Syncing", "AwaitingStart", "Accumulating"}

\* C12: the five bytes written for a clock value decode to the same whole
\* seconds and to a fraction that is at most the clock's fraction and less
\* than 1/256 s below it; a clock value on the 1/256 s grid comes back
\* unchanged.
C12_TimeRoundTrip ==
    time_pc = "Decoded"
    => /\ Len(time_bytes) = 5
       /\ time_seconds[1] = clock[1]
       /\ time_seconds[2] = clock[2]
       /\ time_seconds[3] <= clock[3]
       /\ (clock[3] - time_seconds[3]) * TICKS < FRAC
       /\ ((clock[3] * TICKS) % FRAC = 0) => time_seconds = clock

\* 1 700 000 000.5 s went through the round trip.
C12_Witness ==
    /\ time_pc = "Decoded"
    /\ clock = <<25939, 61696, 512>>
    /\ time_bytes = <<101, 83, 241, 0, 128>>
    /\ time_seconds = clock

\* C13: once a response with an odd byte 1 has been received, the call has
\* raised ConnectionRefusedError and has returned nothing, and the exception
\* carries the request sent, the first eight bytes of the response and the
\* rest of it.
C13_BusErrorRaises ==
    (recvData # <<>> /\ recvData[2] % 2 = 1)
    => /\ reg_pc = "Raised"
       /\ reg_error.error = "ConnectionRefusedError"
       /\ reg_result = None
       /\ reg_error.args \o <<reg_error.filename>>
             = <<sendBytes, SubSeq(recvData, 1, 8), SubSeq(recvData, 9, Len(recvData))>>

\* C14: the datagram of a call is 0xFF, the opcode, the id, the length byte
\* and the address as four big-endian bytes; a read has opcode 0xC0, the
\* length argument as length byte and nothing after the header; a write has
\* opcode 0x80, the number of payload bytes as length byte and the payload
\* after the header, one byte for a scalar.
C14_RequestLayout ==
    sendBytes # <<>>
    => /\ sendBytes[1] = 255
       /\ sendBytes[3] = reg_args.ID
       /\ from_bytes(SubSeq(sendBytes, 5, 8)) = reg_args.address
       /\ reg_args.data.kind = "none"
          => /\ sendBytes[2] = 192
             /\ sendBytes[4] = reg_args.length
             /\ Len(sendBytes) = 8
       /\ reg_args.data.kind # "none"
          => /\ sendBytes[2] = 128
             /\ sendBytes[4] = Len(sendBytes) - 8
             /\ SubSeq(sendBytes, 9, Len(sendBytes)) = reg_args.data.bytes
       /\ reg_args.data.kind = "scalar" => Len(sendBytes) = 9

\* A scalar was written with a length argument of 5.
C14_Witness ==
    /\ reg_args # <<>>
    /\ reg_args.data = Scalar(128)
    /\ reg_args.length = 5
    /\ sendBytes = <<255, 128, 254, 1, 0, 0, 1, 144, 128>>

\* C15: a call of register_readwrite puts at most one sendto and then at
\* most one recv on the socket; after the recv it is over, and a response
\* with an even byte 1 has been returned whatever id it carries.
C15_OneSendOneRecv ==
    caller = "register_readwrite"
    => /\ Len(udp_log) <= 2
       /\ Len(udp_log) >= 1 => udp_log[1] = <<"sendto", sendBytes>>
       /\ Len(udp_log) = 2 => udp_log[2] = <<"recv", recvData>>
       /\ reg_pc = "Idle" => Len(udp_log) = 0
       /\ reg_pc = "Receiving" => Len(udp_log) = 1
       /\ reg_pc = "Returned" => Len(udp_log) = 2
       /\ (Len(udp_log) = 2 /\ recvData[2] % 2 = 0)
          => /\ reg_pc = "Returned"
             /\ reg_result = recvData

\* A response with another id than the request's was returned.
C15_Witness ==
    /\ caller = "register_readwrite"
    /\ reg_pc = "Returned"
    /\ sendBytes[3] = 254
    /\ recvData[3] = 7
    /\ reg_result = recvData

\* The reads of the sweep as the documentation lists them.
SweepOrder ==
    <<<<384, 8>>, <<392, 3>>, <<395, 5>>, <<400, 7>>, <<408, 8>>, <<432, 6>>>>

\* C16: the k-th datagram read_full_register sends is the 8-byte read of
\* the k-th (address, length) of the documented order; each is followed by
\* one recv before the next; the sweep has returned exactly when six were
\* answered without the bus-error flag, and a flagged answer is the last
\* thing on the socket.
C16_SweepOrder ==
    caller = "read_full_register"
    => /\ Len(udp_log) <= 2 * Len(SweepOrder)
       /\ \A i \in 1..Len(udp_log) :
            IF i % 2 = 1
            THEN LET d == udp_log[i][2]
                     row == SweepOrder[(i + 1) \div 2]
                 IN  /\ udp_log[i][1] = "sendto"
                     /\ Len(d) = 8
                     /\ d[2] = 192
                     /\ d[4] = row[2]
                     /\ from_bytes(SubSeq(d, 5, 8)) = row[1]
            ELSE /\ udp_log[i][1] = "recv"
                 /\ (udp_log[i][2][2] % 2 = 1) => (i = Len(udp_log) /\ reg_pc = "Raised")
       /\ reg_pc = "Returned" <=> (Len(udp_log) = 2 * Len(SweepOrder) /\ recvData[2] % 2 = 0)
       /\ reg_pc = "Raised" => recvData[2] % 2 = 1

\* A sweep returned after six answers of differing content.
C16_Witness ==
    /\ caller = "read_full_register"
    /\ reg_pc = "Returned"
    /\ Len(udpBytes) = 6
    /\ udp_log[2][2] = Response(128, 0, <<1>>)
    /\ udp_log[4][2] = Response(194, 9, <<>>)

\* The addresses staging is to send to, in order: the four writes, and for
\* a verbose run the device time read before and after the second of them.
StagingAddresses(v) ==
    IF v THEN <<394, 400, 400, 400, 390, 436>> ELSE <<394, 400, 390, 436>>

\* C17: every step of staging sends the next request of the sequence, the
\* writes going to 0x18A, 0x190, 0x186, 0x1B4 in this order, and a run that
\* has received a stream byte has had all of them answered and is staged.
C17_StagingWrites ==
    /\ [][pc = "Staging"
          => /\ Len(udp_sent) < Len(StagingAddresses(verbose))
             /\ udp_sent' = Append(udp_sent, StagingAddresses(verbose)[Len(udp_sent) + 1])]_vars
    /\ [](recvd # <<>> => (udp_sent = StagingAddresses(verbose) /\ staged))

\* C18: a run in which a staging write was answered with a bus error has
\* failed with that error, has sent no write after the refused one, has read
\* no stream byte, is not staged, has no result, and takes no further step.
C18_StagingFailureFatal ==
    /\ [](error = "ConnectionRefusedError"
          => /\ pc = "Failed"
             /\ ~staged
             /\ udp_sent # <<>>
             /\ IsPrefix(udp_sent, StagingAddresses(verbose))
             /\ recvd = <<>>
             /\ frames_read = 0
             /\ elapsed_time = Unbound
             /\ counts = [i \in psd_nums |-> 0])
    /\ [][pc # "Failed"]_vars

\* The second staging write was refused: two writes were sent, two were not.
C18_Witness ==
    /\ pc = "Failed"
    /\ error = "ConnectionRefusedError"
    /\ udp_sent = <<UDP_TIME_MODE, UDP_DEVICE_TIME>>


(***************************************************************************)
(* C21.  What a call of read() returned is not changed by the object       *)
(* afterwards, and every call starts from fresh state: in every step the   *)
(* results returned so far keep their start timestamp, their elapsed time  *)
(* and the contents of their histogram arrays, and the step that starts a  *)
(* call leaves every total count and every histogram count at zero.        *)
(***************************************************************************)
\* The histogram arrays a returned result refers to, as they are now.
Arrays(r) == IF r.arrays = alloc THEN histograms ELSE retired[r.arrays]

C21_ResultsKept ==
    [][ /\ \A i \in 1..Len(results) :
            /\ i <= Len(results')
            /\ results'[i] = results[i]
            /\ Arrays(results[i])' = Arrays(results[i])
        /\ ((pc # "Staging" /\ pc' = "Staging") => AllZero')
      ]_vars

\* A second call has been staged with all its counts at zero while the
\* result of the first call holds a counted neutron.
C21_Witness ==
    /\ alloc = 2
    /\ pc = "Syncing"
    /\ AllZero
    /\ results # <<>>
    /\ \E d \in psd_nums : \E b \in DOMAIN Arrays(results[1])[d] :
        Arrays(results[1])[d][b][2] > 0
    /\ results[1].elapsed_time >= exposure_time * TICKS

(***************************************************************************)
(* C22.  Every frame a steady-state read assembles is exactly 8 bytes long *)
(* and is the next 8 bytes of the stream, whatever its first byte: the     *)
(* step of a steady-state read leaves 8 bytes in bytes_data, and they are  *)
(* exactly the bytes the step has taken from the stream.                   *)
(***************************************************************************)
C22_SteadyFrames ==
    [][(pc \in {"AwaitingStart", "Accumulating"} /\ frames_read' = frames_read + 1)
        => (Len(bytes_data') = 8 /\ recvd' = recvd \o bytes_data')]_vars

(***************************************************************************)
(* C23.  The resynchronizing read discards bytes up to the first known tag *)
(* and returns the 8-byte frame that starts there: the step of the         *)
(* resynchronizing read returns (the run goes on to AwaitingStart) with 8  *)
(* bytes in bytes_data, the first of them a known tag, and the bytes it    *)
(* took from the stream are bytes that are not known tags followed by      *)
(* that frame.                                                              *)
(***************************************************************************)
C23_ResyncFrame ==
    [][pc = "Syncing" /\ frames_read' = frames_read + 1
        => /\ pc' = "AwaitingStart"
           /\ Len(bytes_data') = 8
           /\ bytes_data'[1] \in TCP_START_BYTES
           /\ LET n == Len(recvd') - Len(recvd) - 8
              IN  /\ n >= 0
                  /\ SubSeq(recvd', 1, Len(recvd)) = recvd
                  /\ \A j \in 1..n : recvd'[Len(recvd) + j] \notin TCP_START_BYTES
                  /\ SubSeq(recvd', Len(recvd) + n + 1, Len(recvd')) = bytes_data'
      ]_vars

(***************************************************************************)
(* C24.  The resynchronizing read happens exactly once in a run, as its    *)
(* first read, and every later read is a steady-state read whatever the    *)
(* frame before it was: a step that reads a frame is the resynchronizing   *)
(* read exactly when no frame has been read yet, and every later read      *)
(* takes the next bytes of the stream as its frame without discarding any, *)
(* so a misaligned stream stays misaligned.                                 *)
(***************************************************************************)
C24_ResyncOnce ==
    [][frames_read' = frames_read + 1
        => /\ (pc = "Syncing") <=> (frames_read = 0)
           /\ pc' # "Syncing"
           /\ frames_read >= 1 => recvd' = recvd \o bytes_data'
      ]_vars

\* Two frames in a row whose first byte is not a known tag have been read
\* during the exposure, each taken as it came.
C24_Witness ==
    /\ pc = "Accumulating"
    /\ frames_read = 4
    /\ bytes_data = MisalignedFrame
    /\ Len(recvd) >= 16
    /\ SubSeq(recvd, Len(recvd) - 15, Len(recvd)) = MisalignedFrame \o MisalignedFrame
    /\ bytes_data[1] \notin TCP_START_BYTES

(***************************************************************************)
(* C25.  A steady-state frame that starts with the TriggerId tag or with a *)
(* byte that is no known tag is ignored in both loops: the step that reads *)
(* it raises nothing, stays in its loop and leaves the histograms, the     *)
(* total counts, start_time and current_time as they were.                 *)
(***************************************************************************)
C25_OtherFramesIgnored ==
    [][(/\ pc \in {"AwaitingStart", "Accumulating"}
        /\ frames_read' = frames_read + 1
        /\ bytes_data' # <<>>
        /\ (bytes_data'[1] = TRIGGER_ID \/ bytes_data'[1] \notin TCP_START_BYTES))
        => /\ error' = "none"
           /\ pc' = pc
           /\ UNCHANGED <<histograms, counts, start_time, current_time>>
      ]_vars

\* A trigger frame has been read during the exposure, after a neutron was
\* counted and the clock had advanced.
C25_Witness ==
    /\ pc = "Accumulating"
    /\ bytes_data = TriggerFrame
    /\ frames_read >= 3
    /\ error = "none"
    /\ ~AllZero

(***************************************************************************)
(* C26.  During the exposure every InstrumentTime frame replaces           *)
(* current_time by its decoded value, smaller than the former value or     *)
(* than start_time or not, and the run ends with that frame exactly when   *)
(* current_time - start_time has reached exposure_time.                    *)
(***************************************************************************)
C26_ClockNotMonotone ==
    [][(/\ pc = "Accumulating"
        /\ frames_read' = frames_read + 1
        /\ Len(bytes_data') >= 6
        /\ bytes_data'[1] = INST_TIME)
        => /\ current_time' = FrameTime(bytes_data')
           /\ error' = "none"
           /\ IF current_time' - start_time >= exposure_time * TICKS
              THEN pc' = "Done" /\ elapsed_time' = current_time' - start_time
              ELSE pc' = "Accumulating"
      ]_vars

\* The clock of the run has gone back behind the start time and behind
\* its own former value, and the exposure is still running.
C26_Witness ==
    /\ pc = "Accumulating"
    /\ frames_read = 4
    /\ bytes_data[1] = INST_TIME
    /\ current_time = FrameTime(bytes_data)
    /\ current_time < start_time
    /\ \E k \in 1..(Len(recvd) \div 8 - 1) :
         LET g == SubSeq(recvd, Len(recvd) - 8 * k - 7, Len(recvd) - 8 * k)
         IN  g[1] = INST_TIME /\ FrameTime(g) > current_time /\ FrameTime(g) > start_time

(***************************************************************************)
(* C27.  The neutron decoder follows the documented bit layout, with       *)
(* payload[k] the frame byte k+1.  In type 14 the detector is bits 6..4 of *)
(* payload[3], pulse_left the low four bits of payload[3], payload[4] and  *)
(* the top two bits of payload[5], pulse_right the low six bits of         *)
(* payload[5] and payload[6], both below 2^14; in type 12 the detector is  *)
(* the low three bits of payload[3], pulse_left is payload[4] and the high *)
(* nibble of payload[5], pulse_right the low nibble of payload[5] and      *)
(* payload[6], both below 2^12.  The position is                           *)
(* pulse_left/(pulse_left + pulse_right) when the sum is not zero.         *)
(***************************************************************************)
Shl(x, n) == x * 2^n
Shr(x, n) == x \div 2^n
RECURSIVE BitAnd(_, _)
BitAnd(x, y) ==
    IF x = 0 \/ y = 0 THEN 0
    ELSE 2 * BitAnd(x \div 2, y \div 2) + (IF x % 2 = 1 /\ y % 2 = 1 THEN 1 ELSE 0)
RECURSIVE BitOr(_, _)
BitOr(x, y) ==
    IF x = 0 THEN y
    ELSE IF y = 0 THEN x
    ELSE 2 * BitOr(x \div 2, y \div 2) + (IF x % 2 = 1 \/ y % 2 = 1 THEN 1 ELSE 0)

\* The fields of the documented layout; payload is 0-based in the layout,
\* so payload[k] is p[k + 1] of the sequence p.
Layout(p, type) ==
    IF type = 14
    THEN [psd |-> BitAnd(Shr(p[4], 4), 7),
          pulse_left |-> BitOr(BitOr(Shl(BitAnd(p[4], 15), 10), Shl(p[5], 2)), Shr(p[6], 6)),
          pulse_right |-> BitOr(Shl(BitAnd(p[6], 63), 8), p[7]),
          limit |-> 2^14]
    ELSE [psd |-> BitAnd(p[4], 7),
          pulse_left |-> BitOr(Shl(p[5], 4), Shr(p[6], 4)),
          pulse_right |-> BitOr(Shl(BitAnd(p[6], 15), 8), p[7]),
          limit |-> 2^12]

C27_BitLayout ==
    pc \in {"Decoded12", "Decoded14"} =>
        LET l == Layout(Tail(bytes_data), IF pc = "Decoded12" THEN 12 ELSE 14)
        IN  /\ psd_number = l.psd
            /\ l.pulse_left < l.limit
            /\ l.pulse_right < l.limit
            /\ IF l.pulse_left + l.pulse_right = 0
               THEN position = None
               ELSE position = <<l.pulse_left, l.pulse_left + l.pulse_right>>

\* A frame has been decoded in type 12 whose detector byte has bit 3 set and
\* whose two pulses take their bits from both nibbles of byte 6.
C27_Witness ==
    /\ pc = "Decoded12"
    /\ bytes_data[5] = 15
    /\ bytes_data[7] = 255
    /\ psd_number = 7
    /\ position = <<4095, 8190>>

(***************************************************************************)
(* C28.  The exposure elapsing is what ends a run: once start_time is      *)
(* fixed, if the device keeps delivering whole frames and one of the       *)
(* frames still to come is an InstrumentTime frame whose time is at least  *)
(* start_time + exposure_time, the run eventually reaches Done.            *)
(***************************************************************************)
FeedFrame(i) == SubSeq(feed, 8 * (i - 1) + 1, 8 * i)

EndFrameAhead ==
    \E i \in (Len(recvd) \div 8 + 1)..(Len(feed) \div 8) :
        /\ FeedFrame(i)[1] = INST_TIME
        /\ FrameTime(FeedFrame(i)) >= start_time + exposure_time * TICKS

C28_ExposureEnds == (pc = "Accumulating" /\ EndFrameAhead) ~> (pc = "Done")

(***************************************************************************)
(* C29.  The physical position stored with bin i of every histogram is the *)
(* transform of the bin's normalized centre (i + 0.5)/bin_count, that is   *)
(* (centre - 0.5) * 150 mm * (1.5 + 2*1)/1.5, at every moment of the run   *)
(* and for every active detector alike.                                    *)
(***************************************************************************)
\* Equality of two fractions <<numerator, denominator>>.
SameFraction(a, b) == a[1] * b[2] = b[1] * a[2]

\* The transform of the centre of bin i, (2i + 1)/(2 nbins).
CentrePosition(i, nbins) == to_physical_position(2 * i + 1, 2 * nbins)

C29_BinCentres ==
    \A d \in DOMAIN histograms :
        /\ DOMAIN histograms[d] = 0..(bins - 1)
        /\ \A i \in DOMAIN histograms[d] :
            SameFraction(histograms[d][i][1], CentrePosition(i, bins))

(***************************************************************************)
(* C30.  The revisions disagree on the events seen before the first        *)
(* InstrumentTime frame.  On the same stream, when detector_reader.start   *)
(* fixes its start time its totals and histograms hold every NeutronEvent  *)
(* frame of detectors 0 and 7 (of non-zero pulse height) that came after   *)
(* the first frame, each in the bin of its position, while                 *)
(* Linear3HePSD.read has all its totals and histogram counts at zero when  *)
(* it fixes its own.                                                        *)
(***************************************************************************)
\* The frames 2..n of the stream that are events of detector d with a
\* position, and those of them that fall into bin b of BINS.
EventsBefore(d, n) ==
    {i \in 2..n : /\ FeedFrame(i)[1] = NEUTRON_EVENT
                  /\ translate_neutron_data(FeedFrame(i)).psd_number = d
                  /\ translate_neutron_data(FeedFrame(i)).position # None}

EventsInBin(d, n, b) ==
    {i \in EventsBefore(d, n) :
        ClampedFloor(translate_neutron_data(FeedFrame(i)).position, BINS) = b}

C30_RevisionsDisagree ==
    [][ /\ (dr_pc = "AwaitingStart" /\ dr_pc' # "AwaitingStart") =>
            LET n == dr_read \div 8
            IN  /\ dr_count0' = Cardinality(EventsBefore(0, n))
                /\ dr_count7' = Cardinality(EventsBefore(7, n))
                /\ \A b \in 0..(BINS - 1) :
                    /\ dr_arr0'[b] = Cardinality(EventsInBin(0, n, b))
                    /\ dr_arr7'[b] = Cardinality(EventsInBin(7, n, b))
        /\ (pc = "AwaitingStart" /\ pc' \in {"Accumulating", "Done"}) => AllZero'
      ]_vars

\* Both readers have read the same stream to its end and fixed their start
\* times on its last frame; the older one has counted the event of
\* detector 0 that came before it, in bin 512 of 1024, the newer one
\* nothing.
C30_Witness ==
    /\ dr_pc = "Accumulating"
    /\ pc = "Accumulating"
    /\ dr_read = Len(feed)
    /\ recvd = feed
    /\ bytes_data = dr_bytes_data
    /\ bytes_data[1] = INST_TIME
    /\ dr_count0 = 1
    /\ dr_arr0[512] = 1
    /\ AllZero

(***************************************************************************)
(* C31.  At every point of a run the total count of each active detector   *)
(* is the sum of the counts over the bins of its histogram, and no step of *)
(* the run lowers a total count or the count of a bin.                     *)
(***************************************************************************)
\* The sum of the count column of the histogram h over its bins 0..n-1.
RECURSIVE BinSum(_, _)
BinSum(h, n) == IF n = 0 THEN 0 ELSE BinSum(h, n - 1) + h[n - 1][2]

C31_TotalIsBinSum ==
    /\ [](\A d \in DOMAIN counts :
            /\ DOMAIN histograms[d] = 0..(bins - 1)
            /\ counts[d] = BinSum(histograms[d], bins))
    /\ [][pc \notin {"Idle", "Done", "Failed"} =>
            /\ DOMAIN counts' = DOMAIN counts
            /\ \A d \in DOMAIN counts :
                /\ counts'[d] >= counts[d]
                /\ \A i \in DOMAIN histograms[d] :
                    histograms'[d][i][2] >= histograms[d][i][2]
        ]_vars

\* Both active detectors have counted a neutron during the exposure, each
\* in one bin of its own histogram.
C31_Witness ==
    /\ pc = "Accumulating"
    /\ psd_nums = {0, 7}
    /\ counts[0] = 1
    /\ counts[7] = 1
    /\ \E i \in DOMAIN histograms[0] : histograms[0][i][2] = 1
    /\ \E i \in DOMAIN histograms[7] : histograms[7][i][2] = 1

(***************************************************************************)
(* C32.  register_readwrite refuses a response exactly when bit 0 of its   *)
(* byte 1 is set: a response with that bit clear is returned to the caller *)
(* as it was received, header and data, whatever the other status flags    *)
(* (bits 1 to 3 of the low nibble) are.                                    *)
(***************************************************************************)
\* The datagram the last recv of the transaction log delivered.
LastReceived == udp_log[Len(udp_log)][2]

C32_OnlyBusErrorRaises ==
    (reg_pc # "Receiving" /\ recvData # <<>>) =>
        /\ udp_log[Len(udp_log)][1] = "recv"
        /\ IF LastReceived[2] % 2 = 1
           THEN /\ reg_pc = "Raised"
                /\ reg_error.error = "ConnectionRefusedError"
           ELSE /\ reg_pc # "Raised"
                /\ reg_error.error = "none"
                /\ reg_result = LastReceived

\* A response with flags 0x8E (bits 1, 2 and 3 set, bit 0 clear) and two
\* data bytes has been returned whole.
C32_Witness ==
    /\ caller = "register_readwrite"
    /\ reg_pc = "Returned"
    /\ LastReceived[2] = 142
    /\ Len(LastReceived) = 10
    /\ reg_result = LastReceived
    /\ reg_error.error = "none"

====
